---- MODULE Spec2Model ----
(***************************************************************************)
(* A model of the resumable direct worker of openai-batch-csv             *)
(* (netlify/functions/direct-worker-background.js), of the chunk planner  *)
(* of batch-create, of the download and status functions (batch-download, *)
(* direct-status) and of the blob store they share.                       *)
(*                                                                         *)
(* One step of the model is the code between two awaits of one            *)
(* invocation: it performs at most one store operation.  Invocations are  *)
(* separate processes; the workers of one invocation are promises of one  *)
(* event loop and interleave at their awaits.                             *)
(***************************************************************************)
EXTENDS Integers, Sequences, FiniteSets, TLC

(***************************************************************************)
(* Bounds of the model.                                                    *)
(***************************************************************************)
\* rows of the job in the worker specifications
MaxRows == 4
\* rows and chunk size explored by the planner specification
MaxPlanRows == 9
MaxPlanK == 5
\* completion calls that may fail in one behaviour
MaxFailures == 2
\* lease lifetimes the clock may cover
MaxLeaseAges == 1
\* rows in the download specification
MaxViewRows == 3
\* rows, and completion calls that may fail, in the retry specification
MaxRetryRows == 2
MaxRetryFailures == 7
\* completion calls that may fail when two invocations run side by side
MaxPairFailures == 1
\* rows, and the largest concurrency requested, in the concurrency specification
MaxConcRows == 2
MaxRequested == 3
\* rows in the worker pool specification
MaxPoolRows == 3
\* rows in the lease specification
MaxLeaseRows == 2
\* rows in the event log specification
MaxLogRows == 2
\* rows in the liveness specification
MaxLiveRows == 2
\* rows in the specification of the two reconcilers
MaxSameRows == 2

(***************************************************************************)
(* Program constants.                                                      *)
(***************************************************************************)
\* process.env.MAX_DIRECT_CONCURRENCY: the deployment's setting in the model
MAX_DIRECT_CONCURRENCY == 2
LOCK_TTL_MS == 15 * 60 * 1000
LOCK_HEARTBEAT_MS == 60 * 1000
\* callWithRetry's default retries
RETRIES == 5
\* callWithRetry: base = 300, max = 5000
BASE_DELAY_MS == 300
MAX_DELAY_MS == 5000
\* writeStatus keeps prev.events.slice(-49) and pushes one entry
EVENTS_KEPT == 49
\* desiredConcurrency's default in Number(desiredConcurrency || 4)
DEFAULT_CONCURRENCY == 4

Min(a, b) == IF a < b THEN a ELSE b
Max(a, b) == IF a > b THEN a ELSE b

\* Array.prototype.slice(i, j) on a sequence, 0-based, j clipped to the length
Slice(s, i, j) ==
    LET hi == Min(j, Len(s))
    IN  IF i >= hi THEN <<>> ELSE [p \in 1..(hi - i) |-> s[i + p]]

\* mutant: the oldest n entries are kept
OldestN(s, n) == SubSeq(s, 1, Min(n, Len(s)))

\* arr.slice(-n): the last n entries
LastN(s, n) == IF Len(s) <= n THEN s ELSE [p \in 1..n |-> s[Len(s) - n + p]]

(***************************************************************************)
(* Chunk planning.                                                         *)
(***************************************************************************)
\* rows.map((r, idx) => ({ id: idx, text })) : the items, by id
Items(n) == [p \in 1..n |-> p - 1]

\* mutant: the loop stops before a last chunk shorter than chunkSize
BuildChunksFullOnly(items, chunkSize) ==
    LET full == (Len(items) \div chunkSize) * chunkSize
    IN  [c \in 1..(full \div chunkSize) |->
           [j \in 1..chunkSize |-> items[(c - 1) * chunkSize + j]]]

RECURSIVE ChunkLoop(_, _, _, _)
ChunkLoop(items, chunkSize, i, chunks) ==
    IF i < Len(items)
    THEN ChunkLoop(items, chunkSize, i + chunkSize,
                   Append(chunks, Slice(items, i, i + chunkSize)))
    ELSE chunks

\* for (let i = 0; i < items.length; i += chunkSize) chunks.push(items.slice(i, i + chunkSize))
BuildChunks(items, chunkSize) == ChunkLoop(items, chunkSize, 0, <<>>)

RECURSIVE LinesLoop(_, _, _, _)
LinesLoop(n, chunkSize, start, lines) ==
    IF start < n
    THEN LinesLoop(n, chunkSize, start + chunkSize,
                   Append(lines,
                          [custom_id |-> start,
                           ids |-> LET c == Slice(Items(n), start, start + chunkSize)
                                   IN  [j \in 1..Len(c) |-> start + (j - 1)]]))
    ELSE lines

\* batch-create: one JSONL line per chunk, custom_id = String(start), ids start + j
BuildLines(n, chunkSize) == LinesLoop(n, chunkSize, 0, <<>>)

\* Math.ceil(n / k)
CeilDiv(n, k) == (n + k - 1) \div k

(***************************************************************************)
(* Rows, JSON values and completion responses.                             *)
(***************************************************************************)
\* the original CSV has one column, "text"; row r holds OrigText(r)
OrigText(r) == <<"t0", "t1", "t2", "t3", "t4", "t5", "t6", "t7", "t8", "t9", "t10">>[r + 1]
ResVal(r) == <<"v0", "v1", "v2", "v3", "v4", "v5", "v6", "v7", "v8", "v9", "v10">>[r + 1]
ColNames == {"text", "lang", "tag", "result"}
\* a property a row object does not have
Undef == "<undefined>"
\* a JSON null inside cols
NullVal == "<null>"

NumId(n) == [t |-> "num", n |-> n]
NoId == [t |-> "undef", n |-> 0]
NullId == [t |-> "null", n |-> 0]
ColsItem(id, cols) == [id |-> id, form |-> "cols", cols |-> cols, result |-> ""]
ResultItem(id, s) == [id |-> id, form |-> "result", cols |-> <<>>, result |-> s]
Col(k, v) == [k |-> k, v |-> v]

\* JSON.parse failed (parsed = null); also what store.get gives for a missing key
JNull == [kind |-> "null", res |-> FALSE, items |-> <<>>]
\* an object with no results array
JEmptyObj == [kind |-> "obj", res |-> FALSE, items |-> <<>>]
\* { results: [...] }
JObj(items) == [kind |-> "obj", res |-> TRUE, items |-> items]
\* a bare array
JArr(items) == [kind |-> "arr", res |-> FALSE, items |-> items]

\* Number(x) is NaN
NaN == -999

\* Number(item?.id)
ToNumber(id) ==
    CASE id.t = "num" -> id.n
      [] id.t = "null" -> 0
      [] OTHER -> NaN

\* a JS value is truthy (null is not)
Truthy(j) == j.kind # "null"

\* JSON.stringify(parsed || {}) as stored, read back with { type: "json" }
PartialBody(parsed) == IF Truthy(parsed) THEN parsed ELSE JEmptyObj

\* The completion of the chunk holding rows lo..hi-1 of n, by template.
RespBody(tag, lo, hi, n) ==
    LET ids == [p \in 1..(hi - lo) |-> lo + p - 1]
    IN  CASE tag = "cols" ->
               JObj([p \in 1..Len(ids) |->
                       ColsItem(NumId(ids[p]), <<Col("lang", ResVal(ids[p]))>>)])
          [] tag = "result" ->
               JObj([p \in 1..Len(ids) |-> ResultItem(NumId(ids[p]), ResVal(ids[p]))])
          [] tag = "arr" ->
               JArr([p \in 1..Len(ids) |-> ResultItem(NumId(ids[p]), ResVal(ids[p]))])
          [] tag = "one" -> JObj(<<ColsItem(NumId(lo), <<Col("tag", "es")>>)>>)
          [] tag = "far" -> JObj(<<ColsItem(NumId(n), <<Col("tag", "es")>>)>>)
          [] tag = "xrow" -> JObj(<<ColsItem(NumId(hi % n), <<Col("tag", "zz")>>)>>)
          [] tag = "orig" -> JObj(<<ColsItem(NumId(lo), <<Col("text", "ov")>>)>>)
          [] tag = "noid" -> JObj(<<ColsItem(NoId, <<Col("lang", "nn")>>)>>)
          [] tag = "noids" ->
               JObj([p \in 1..Len(ids) |-> ColsItem(NoId, <<Col("lang", ResVal(ids[p]))>>)])
          [] tag = "nullid" -> JObj(<<ColsItem(NullId, <<Col("lang", NullVal)>>)>>)
          [] tag = "empty" -> JEmptyObj
          [] OTHER -> JNull

(***************************************************************************)
(* The reconciler: the merge loop of the worker and of the partial        *)
(* download.                                                               *)
(***************************************************************************)
\* rows.map((r) => ({ ...r })), colSet = new Set()
InitMerge(n) ==
    [merged |-> [r \in 0..(n - 1) |->
                   [c \in ColNames |-> IF c = "text" THEN OrigText(r) ELSE Undef]],
     colSet |-> <<>>]

\* csvParse(csvTxt, { columns: true, skip_empty_lines }) of a file with one column,
\* by the "text" of each record: an empty line is skipped when the option is set and
\* is a record with an empty field when it is not
CsvParse(n, blank, skipEmptyLines) ==
    LET texts == [r \in 1..n |-> OrigText(r - 1)]
    IN  IF blank = 0 \/ skipEmptyLines THEN texts
        ELSE SubSeq(texts, 1, blank) \o <<"">> \o SubSeq(texts, blank + 1, n)

\* rows.map((r) => ({ ...r })), colSet = new Set(), for the rows csvParse returned
InitMergeOf(texts) ==
    [merged |-> [r \in 0..(Len(texts) - 1) |->
                   [c \in ColNames |-> IF c = "text" THEN texts[r + 1] ELSE Undef]],
     colSet |-> <<>>]

\* mutant: a new name is put in front of the names already there
SetAddInFront(colSet, k) ==
    IF \E p \in 1..Len(colSet) : colSet[p] = k THEN colSet ELSE <<k>> \o colSet

\* colSet.add(k): a Set keeps insertion order
SetAdd(colSet, k) ==
    IF \E p \in 1..Len(colSet) : colSet[p] = k THEN colSet ELSE Append(colSet, k)

\* const vv = (v == null) ? "" : String(v)
ColValue(v) == IF v = NullVal THEN "" ELSE v

RECURSIVE ApplyCols(_, _, _, _)
ApplyCols(ms, outIdx, cols, p) ==
    IF p > Len(cols) THEN ms
    ELSE ApplyCols([merged |-> [ms.merged EXCEPT ![outIdx][cols[p].k] = ColValue(cols[p].v)],
                    colSet |-> SetAdd(ms.colSet, cols[p].k)],
                   outIdx, cols, p + 1)

\* the body of "for (const item of arr)"
ApplyItem(ms, item, n) ==
    LET outIdx == ToNumber(item.id)
    IN  IF outIdx = NaN \/ outIdx < 0 \/ outIdx >= n THEN ms
        ELSE IF item.form = "cols" THEN ApplyCols(ms, outIdx, item.cols, 1)
        ELSE IF item.form = "result"
             THEN [merged |-> [ms.merged EXCEPT ![outIdx]["result"] = item.result],
                   colSet |-> SetAdd(ms.colSet, "result")]
        ELSE ms

RECURSIVE ApplyItemsByPosition(_, _, _, _)
\* mutant: the target row is the result's position in the array, not its id
ApplyItemsByPosition(ms, arr, n, p) ==
    IF p > Len(arr) THEN ms
    ELSE ApplyItemsByPosition(ApplyItem(ms, [arr[p] EXCEPT !.id = NumId(p - 1)], n),
                              arr, n, p + 1)

RECURSIVE ApplyItems(_, _, _, _)
ApplyItems(ms, arr, n, p) ==
    IF p > Len(arr) THEN ms ELSE ApplyItems(ApplyItem(ms, arr[p], n), arr, n, p + 1)

\* Array.isArray(part.results) ? part.results : (Array.isArray(part) ? part : null)
HasResultsArray(part) == (part.kind = "obj" /\ part.res) \/ part.kind = "arr"

\* one turn of the merge loop on the part of one chunk
MergePart(ms, part, n) ==
    IF ~Truthy(part) THEN ms
    ELSE IF ~HasResultsArray(part) THEN ms
    ELSE ApplyItems(ms, part.items, n, 1)

\* Object.keys(rows[0] || {})
OriginalHeaders(n) == IF n = 0 THEN <<>> ELSE <<"text">>

\* mutant: a property the row does not have is printed, not left empty
RenderStored(x) == x

\* what csvStringify prints for a cell
Render(x) == IF x = Undef THEN "" ELSE x

\* headers = [...originalHeaders, ...dynamicHeaders]; csvStringify(merged, { columns: headers })
TableOf(ms, n) ==
    LET headers == OriginalHeaders(n) \o ms.colSet
    IN  [headers |-> headers,
         rows |-> [r \in 1..n |-> [h \in 1..Len(headers) |-> Render(ms.merged[r - 1][headers[h]])]]]

\* no results/<jobId>.csv in the store
NoTable == [headers |-> <<"<none>">>, rows |-> <<>>]

(***************************************************************************)
(* State.                                                                  *)
(***************************************************************************)
VARIABLES
    job,         \* jobs/<id>.json and csv/<id>.csv: the job as submitted
    resp,        \* the completion service: the response template of each chunk
    failsLeft,   \* completion failures the service may still produce
    now,         \* the clock, in ms
    lockTs,      \* jobs/<id>.lock.json: its ts, 0 when the record is absent
    statusRec,   \* jobs/<id>.status.json
    partials,    \* partials/<id>/<idx>.json, by idx + 1; JNull when absent
    resultsCsv,  \* results/<id>.csv
    hpc,         \* where the handler of each invocation stands
    hloc,        \* the handler's local variables
    wk,          \* the workers of each invocation
    batchLines,  \* the JSONL lines batch-create built
    dl,          \* a download request: its position, locals and response
    sq           \* a status query: its position, locals and response

config == <<job, resp>>
store == <<lockTs, statusRec, partials, resultsCsv>>
vars == <<job, resp, failsLeft, now, lockTs, statusRec, partials, resultsCsv,
          hpc, hloc, wk, batchLines, dl, sq>>

Inv == {1, 2}
Workers == 1..MAX_DIRECT_CONCURRENCY

\* no value given for a numeric field (undefined)
Absent == -1

NoStatus ==
    [exists |-> FALSE, status |-> "", totalChunks |-> 0, concurrency |-> 0,
     completedChunks |-> 0, processedRows |-> 0, partial |-> FALSE,
     lastErrorStatus |-> 0, events |-> <<>>]

NoExtra ==
    [totalChunks |-> Absent, concurrency |-> Absent, completedChunks |-> Absent,
     processedRows |-> Absent, partial |-> FALSE, lastErrorStatus |-> 0]

\* a ?? b for numbers
Coalesce(a, b) == IF a = Absent THEN b ELSE a

\* mutant: the counter of the delta is stored as given
MonotonicDeltaWins(prev, extra) == Coalesce(extra, prev)

\* Math.max(prev, Number(extra ?? prev))
Monotonic(prev, extra) == Max(prev, Coalesce(extra, prev))

\* writeStatus: the payload written for a previous record, lines 49-71
StatusPayload(prev, status, extra, message) ==
    LET prevEvents == LastN(prev.events, EVENTS_KEPT)
    IN  [exists |-> TRUE,
         status |-> IF status # "" THEN status
                    ELSE IF prev.status # "" THEN prev.status ELSE "running",
         totalChunks |-> Coalesce(extra.totalChunks, prev.totalChunks),
         concurrency |-> Coalesce(extra.concurrency, prev.concurrency),
         completedChunks |-> Monotonic(prev.completedChunks, extra.completedChunks),
         processedRows |-> Monotonic(prev.processedRows, extra.processedRows),
         partial |-> extra.partial \/ prev.partial,
         lastErrorStatus |-> IF extra.lastErrorStatus # 0 THEN extra.lastErrorStatus
                             ELSE prev.lastErrorStatus,
         events |-> IF message # "" THEN Append(prevEvents, message) ELSE prevEvents]

(***************************************************************************)
(* The job plan, as the handler computes it.                               *)
(***************************************************************************)
Chunks == BuildChunks(Items(job.n), job.chunkSize)
TotalChunks == Len(Chunks)
ChunkLo(idx) == idx * job.chunkSize
ChunkHi(idx) == Min((idx + 1) * job.chunkSize, job.n)

\* JSON.parse(resp.output_text) of the completion of chunk idx
Parsed(idx) == RespBody(resp[idx + 1], ChunkLo(idx), ChunkHi(idx), job.n)

\* mutant: the lower clamp is 2
ConcurrencyFromTwo(desired) ==
    Max(2, Min(MAX_DIRECT_CONCURRENCY, IF desired = 0 THEN DEFAULT_CONCURRENCY ELSE desired))

\* Math.max(1, Math.min(MAX_DIRECT_CONCURRENCY, Number(desiredConcurrency || 4)))
Concurrency(desired) ==
    Max(1, Min(MAX_DIRECT_CONCURRENCY, IF desired = 0 THEN DEFAULT_CONCURRENCY ELSE desired))

\* mutant: the product is not capped by the row count
ProcessedRowsUncapped(completed) == completed * job.chunkSize

\* Math.min(completedChunks * chunkSize, items.length)
ProcessedRows(completed) == Min(completed * job.chunkSize, job.n)

(***************************************************************************)
(* Local state of an invocation.                                           *)
(***************************************************************************)
\* calls, claimed, finished and scanned record the history of the invocation: the
\* completion calls issued per chunk, the indices in the order pickNext returned
\* them, the indices in the order their partials were stored, and done[] as the
\* resume scan left it.
HLocal0 ==
    [now |-> 0, lock |-> 0, lockTimer |-> FALSE, phase |-> "r", prev |-> NoStatus,
     done |-> <<>>, completedChunks |-> 0, nextIdx |-> 0, parts |-> <<>>,
     concurrency |-> 0, mergeIdx |-> 0, ms |-> InitMerge(0),
     calls |-> <<>>, claimed |-> <<>>, finished |-> <<>>, scanned |-> <<>>, resumed |-> 0]

Worker0 ==
    [pc |-> "idle", idx |-> -1, attempt |-> 0, delay |-> 0, beat |-> FALSE, phase |-> "r",
     prev |-> NoStatus, status |-> 0, cc |-> 0, pr |-> 0]

(***************************************************************************)
(* writeStatus as called by the handler: a read of the status record,     *)
(* then, after the await, a write of the payload.                          *)
(***************************************************************************)
HSites == {"ws_declined", "ws_start", "ws_nometa", "ws_meta", "ws_nocsv",
           "ws_parsed", "ws_plan", "ws_ready", "ws_fatal"}

HStatus(site) ==
    CASE site \in {"ws_nometa", "ws_nocsv", "ws_fatal"} -> "failed"
      [] site = "ws_ready" -> "ready"
      [] OTHER -> "running"

HExtra(v, site) ==
    CASE site = "ws_plan" ->
           [NoExtra EXCEPT !.totalChunks = TotalChunks,
                           !.concurrency = hloc[v].concurrency,
                           !.completedChunks = hloc[v].resumed,
                           !.processedRows = ProcessedRows(hloc[v].resumed),
                           !.partial = hloc[v].resumed > 0]
      [] site = "ws_ready" ->
           [NoExtra EXCEPT !.completedChunks = TotalChunks,
                           !.processedRows = job.n,
                           !.partial = TRUE]
      [] OTHER -> NoExtra

HMsg(site) ==
    CASE site = "ws_declined" -> "lockheld"
      [] site = "ws_start" -> "start"
      [] site = "ws_nometa" -> "nometa"
      [] site = "ws_meta" -> "meta"
      [] site = "ws_nocsv" -> "nocsv"
      [] site = "ws_parsed" -> "parsed"
      [] site = "ws_plan" -> "plan"
      [] site = "ws_ready" -> "ready"
      [] OTHER -> "fatal"

HAfter(site) ==
    CASE site = "ws_declined" -> "ret_ignored"
      [] site = "ws_start" -> "meta_get"
      [] site = "ws_nometa" -> "rel_nometa"
      [] site = "ws_meta" -> "csv_get"
      [] site = "ws_nocsv" -> "rel_nocsv"
      [] site = "ws_parsed" -> "scan"
      [] site = "ws_plan" -> "spawn"
      [] site = "ws_ready" -> "rel_ok"
      [] OTHER -> "rel_fatal"

\* prev = await store.get(status)
HWsRead(v) ==
    /\ hpc[v] \in HSites
    /\ hloc[v].phase = "r"
    /\ hloc' = [hloc EXCEPT ![v].phase = "w", ![v].prev = statusRec]
    /\ UNCHANGED <<job, resp, failsLeft, now, lockTs, statusRec, partials, resultsCsv,
                   hpc, wk, batchLines, dl, sq>>

\* await store.set(status, payload)
HWsWrite(v) ==
    /\ hpc[v] \in HSites
    /\ hloc[v].phase = "w"
    /\ statusRec' = StatusPayload(hloc[v].prev, HStatus(hpc[v]), HExtra(v, hpc[v]),
                                  HMsg(hpc[v]))
    /\ hpc' = [hpc EXCEPT ![v] = HAfter(hpc[v])]
    /\ hloc' = [hloc EXCEPT ![v].phase = "r", ![v].prev = NoStatus]
    /\ UNCHANGED <<job, resp, failsLeft, now, lockTs, partials, resultsCsv, wk, batchLines, dl, sq>>

(***************************************************************************)
(* acquireLock, releaseLock and the heartbeat.                             *)
(***************************************************************************)
\* mutant: a lease whose age equals the TTL still counts as live
LiveAtTtl(ts, t) == ts # 0 /\ (t - ts) <= LOCK_TTL_MS

\* const live = lockTs && (now - lockTs) < LOCK_TTL_MS
Live(ts, t) == ts # 0 /\ (t - ts) < LOCK_TTL_MS

\* now = Date.now(); lock = await store.get(lock); live -> writeStatus, return false
AcquireRead(v) ==
    /\ hpc[v] = "start"
    /\ hloc' = [hloc EXCEPT ![v].now = now, ![v].lock = lockTs]
    /\ hpc' = [hpc EXCEPT ![v] = IF Live(lockTs, now) THEN "ws_declined" ELSE "acq_write"]
    /\ UNCHANGED <<job, resp, failsLeft, now, lockTs, statusRec, partials, resultsCsv,
                   wk, batchLines, dl, sq>>

\* await store.set(lock, { ts: new Date() }); lockTimer = setInterval(...)
AcquireWrite(v) ==
    /\ hpc[v] = "acq_write"
    /\ lockTs' = now
    /\ hloc' = [hloc EXCEPT ![v].lockTimer = TRUE]
    /\ hpc' = [hpc EXCEPT ![v] = "ws_start"]
    /\ UNCHANGED <<job, resp, failsLeft, now, statusRec, partials, resultsCsv, wk,
                   batchLines, dl, sq>>

RelAfter(pc) ==
    CASE pc = "rel_nometa" -> "ret_nometa"
      [] pc = "rel_nocsv" -> "ret_nocsv"
      [] pc = "rel_ok" -> "ret_ok"
      [] OTHER -> "ret_error"

\* releaseLock: clearInterval(lockTimer); await store.delete(lock); then return
ReleaseLock(v) ==
    /\ hpc[v] \in {"rel_nometa", "rel_nocsv", "rel_ok", "rel_fatal"}
    /\ lockTs' = 0
    /\ hloc' = [hloc EXCEPT ![v].lockTimer = FALSE]
    /\ hpc' = [hpc EXCEPT ![v] = RelAfter(hpc[v])]
    /\ UNCHANGED <<job, resp, failsLeft, now, statusRec, partials, resultsCsv, wk,
                   batchLines, dl, sq>>

\* a callback of lockTimer or of a worker's beat: store.set(lock, { ts: new Date() })
Heartbeat(v) ==
    /\ hloc[v].lockTimer \/ \E w \in Workers : wk[v][w].beat
    /\ lockTs # now
    /\ lockTs' = now
    /\ UNCHANGED <<job, resp, failsLeft, now, statusRec, partials, resultsCsv,
                   hpc, hloc, wk, batchLines, dl, sq>>

\* time passes
Tick ==
    /\ \E d \in {LOCK_TTL_MS - 1, LOCK_TTL_MS} :
         /\ now + d <= 1 + MaxLeaseAges * LOCK_TTL_MS
         /\ now' = now + d
    /\ UNCHANGED <<job, resp, failsLeft, lockTs, statusRec, partials, resultsCsv,
                   hpc, hloc, wk, batchLines, dl, sq>>

(***************************************************************************)
(* The handler up to the plan.                                             *)
(***************************************************************************)
\* mutant: the handler goes on without looking at what the store returned
MetaGetUnchecked(v) ==
    /\ hpc[v] = "meta_get"
    /\ hpc' = [hpc EXCEPT ![v] = "ws_meta"]
    /\ UNCHANGED <<job, resp, failsLeft, now, lockTs, statusRec, partials, resultsCsv,
                   hloc, wk, batchLines, dl, sq>>

\* meta = await store.get(jobs/<id>.json)
MetaGet(v) ==
    /\ hpc[v] = "meta_get"
    /\ hpc' = [hpc EXCEPT ![v] = IF job.meta THEN "ws_meta" ELSE "ws_nometa"]
    /\ UNCHANGED <<job, resp, failsLeft, now, lockTs, statusRec, partials, resultsCsv,
                   hloc, wk, batchLines, dl, sq>>

\* csvTxt = await store.get(csv/<id>.csv); rows = csvParse(csvTxt)
CsvGet(v) ==
    /\ hpc[v] = "csv_get"
    /\ hpc' = [hpc EXCEPT ![v] = IF job.csv THEN "ws_parsed" ELSE "ws_nocsv"]
    /\ UNCHANGED <<job, resp, failsLeft, now, lockTs, statusRec, partials, resultsCsv,
                   hloc, wk, batchLines, dl, sq>>

\* mutant: the listing of the partials yields nothing
ListedNone(idx) == FALSE

\* the keys store.list yields that mark chunk idx done
Listed(idx) == idx >= 0 /\ idx < TotalChunks /\ Truthy(partials[idx + 1])

\* build chunks; resume scan: done[idx] = true for every listed partial
ResumeScan(v) ==
    /\ hpc[v] = "scan"
    /\ LET done == [p \in 1..TotalChunks |-> Listed(p - 1)]
           completed == Cardinality({p \in 1..TotalChunks : done[p]})
       IN  hloc' = [hloc EXCEPT ![v].done = done,
                                ![v].scanned = done,
                                ![v].completedChunks = completed,
                                ![v].resumed = completed,
                                ![v].parts = [p \in 1..TotalChunks |-> JNull],
                                ![v].calls = [p \in 1..TotalChunks |-> 0],
                                ![v].nextIdx = 0,
                                ![v].concurrency = Concurrency(job.concurrency)]
    /\ hpc' = [hpc EXCEPT ![v] = "ws_plan"]
    /\ UNCHANGED <<job, resp, failsLeft, now, lockTs, statusRec, partials, resultsCsv,
                   wk, batchLines, dl, sq>>

(***************************************************************************)
(* The worker pool.                                                        *)
(***************************************************************************)
\* mutant: pickNext does not skip the chunks marked done
SkipDoneNever(done, i) == i

RECURSIVE SkipDone(_, _)
\* while (nextIdx < totalChunks && done[nextIdx]) nextIdx++
SkipDone(done, i) == IF i < Len(done) /\ done[i + 1] THEN SkipDone(done, i + 1) ELSE i

\* mutant: the cursor stays on the index it returns
PickNextStays(done, nextIdx) ==
    LET i == SkipDone(done, nextIdx)
    IN  IF i >= Len(done) THEN [idx |-> -1, nextIdx |-> i]
        ELSE [idx |-> i, nextIdx |-> i]

\* pickNext(): the index claimed (-1 when none is left) and the cursor after it
PickNext(done, nextIdx) ==
    LET i == SkipDone(done, nextIdx)
    IN  IF i >= Len(done) THEN [idx |-> -1, nextIdx |-> i]
        ELSE [idx |-> i, nextIdx |-> i + 1]

\* a worker at the top of its loop: it claims a chunk and issues the completion
\* call, or leaves the loop (finally: clearInterval(beat))
Claim(h, wrk) ==
    LET pick == PickNext(h.done, h.nextIdx)
    IN  IF pick.idx = -1
        THEN [h |-> [h EXCEPT !.nextIdx = pick.nextIdx],
              w |-> [wrk EXCEPT !.pc = "finished", !.idx = -1, !.beat = FALSE]]
        ELSE [h |-> [h EXCEPT !.nextIdx = pick.nextIdx,
                              !.claimed = Append(@, pick.idx),
                              !.calls[pick.idx + 1] = @ + 1],
              w |-> [wrk EXCEPT !.pc = "call", !.idx = pick.idx, !.attempt = 0,
                                !.beat = TRUE]]

RECURSIVE SpawnLoop(_, _, _, _)
\* Array.from({ length: concurrency }, () => worker()): each worker runs to its
\* first await in turn
SpawnLoop(h, ws, w, c) ==
    IF w > c THEN [h |-> h, ws |-> ws]
    ELSE LET r == Claim(h, ws[w])
         IN  SpawnLoop(r.h, [ws EXCEPT ![w] = r.w], w + 1, c)

Spawn(v) ==
    /\ hpc[v] = "spawn"
    /\ LET r == SpawnLoop(hloc[v], wk[v], 1, hloc[v].concurrency)
       IN  /\ hloc' = [hloc EXCEPT ![v] = r.h]
           /\ wk' = [wk EXCEPT ![v] = r.ws]
    /\ hpc' = [hpc EXCEPT ![v] = "await_all"]
    /\ UNCHANGED <<job, resp, failsLeft, now, lockTs, statusRec, partials, resultsCsv,
                   batchLines, dl, sq>>

\* mutant: every status from 400 on is retried
RetriableFrom400(status) == status >= 400 \/ status = 0

\* status === 429 || (status >= 500 && status < 600) || !status
Retriable(status) == status = 429 \/ (status >= 500 /\ status < 600) \/ status = 0

\* mutant: one more retry before giving up
GivesUpLate(attempt, status) == attempt > RETRIES \/ ~Retriable(status)

\* if (attempt >= retries || !retriable) give up
GivesUp(attempt, status) == attempt >= RETRIES \/ ~Retriable(status)

\* mutant: the response of a retried call is dropped
CallOkFirstAttemptOnly(v, w) ==
    /\ wk[v][w].pc = "call"
    /\ hloc' = [hloc EXCEPT ![v].parts[wk[v][w].idx + 1] =
                   IF wk[v][w].attempt = 0 THEN Parsed(wk[v][w].idx) ELSE JNull]
    /\ wk' = [wk EXCEPT ![v][w].pc = "persist"]
    /\ UNCHANGED <<job, resp, failsLeft, now, lockTs, statusRec, partials, resultsCsv,
                   hpc, batchLines, dl, sq>>

\* client.responses.create resolves: parts[idx] = parsed; store.set(partial) is issued
CallOk(v, w) ==
    /\ wk[v][w].pc = "call"
    /\ hloc' = [hloc EXCEPT ![v].parts[wk[v][w].idx + 1] = Parsed(wk[v][w].idx)]
    /\ wk' = [wk EXCEPT ![v][w].pc = "persist"]
    /\ UNCHANGED <<job, resp, failsLeft, now, lockTs, statusRec, partials, resultsCsv,
                   hpc, batchLines, dl, sq>>

\* 0.5 + Math.random(), in thousandths: Math.random() is in [0, 1)
JitterPermille == {500, 1000, 1499}

\* Math.min(max, base * Math.pow(2, attempt)) * (0.5 + Math.random()), in whole ms
Delay(attempt, jitter) ==
    (Min(MAX_DELAY_MS, BASE_DELAY_MS * 2^attempt) * jitter) \div 1000

\* client.responses.create rejects with err.status = st (0: no status); the delay
\* of the backoff is drawn before its status write
CallFail(v, w) ==
    /\ wk[v][w].pc = "call"
    /\ failsLeft > 0
    /\ \E st \in job.fails, jitter \in JitterPermille :
         wk' = [wk EXCEPT ![v][w].status = st,
                          ![v][w].delay = IF GivesUp(wk[v][w].attempt, st) THEN 0
                                          ELSE Delay(wk[v][w].attempt, jitter),
                          ![v][w].pc = IF GivesUp(wk[v][w].attempt, st)
                                       THEN "ws_giveup" ELSE "ws_backoff"]
    /\ failsLeft' = failsLeft - 1
    /\ UNCHANGED <<job, resp, now, lockTs, statusRec, partials, resultsCsv,
                   hpc, hloc, batchLines, dl, sq>>

\* await setTimeout(delay); attempt++
Backoff(v, w) ==
    /\ wk[v][w].pc = "sleep"
    /\ wk' = [wk EXCEPT ![v][w].pc = "ws_retry", ![v][w].attempt = @ + 1,
                        ![v][w].delay = 0]
    /\ UNCHANGED <<job, resp, failsLeft, now, lockTs, statusRec, partials, resultsCsv,
                   hpc, hloc, batchLines, dl, sq>>

\* the partial is stored; done[idx] = true; completedChunks++; writeStatus is called
PersistPartial(v, w) ==
    /\ wk[v][w].pc = "persist"
    /\ partials' = [partials EXCEPT ![wk[v][w].idx + 1] =
                      PartialBody(hloc[v].parts[wk[v][w].idx + 1])]
    /\ hloc' = [hloc EXCEPT ![v].done[wk[v][w].idx + 1] = TRUE,
                            ![v].completedChunks = @ + 1,
                            ![v].finished = Append(@, wk[v][w].idx)]
    /\ wk' = [wk EXCEPT ![v][w].pc = "ws_done",
                        ![v][w].cc = hloc[v].completedChunks + 1,
                        ![v][w].pr = ProcessedRows(hloc[v].completedChunks + 1)]
    /\ UNCHANGED <<job, resp, failsLeft, now, lockTs, statusRec, resultsCsv, hpc,
                   batchLines, dl, sq>>

\* store.set(partial) rejects and the catch swallows it: nothing is stored;
\* done[idx] = true; completedChunks++; writeStatus is called
PersistPartialFails(v, w) ==
    /\ wk[v][w].pc = "persist"
    /\ hloc' = [hloc EXCEPT ![v].done[wk[v][w].idx + 1] = TRUE,
                            ![v].completedChunks = @ + 1]
    /\ wk' = [wk EXCEPT ![v][w].pc = "ws_done",
                        ![v][w].cc = hloc[v].completedChunks + 1,
                        ![v][w].pr = ProcessedRows(hloc[v].completedChunks + 1)]
    /\ UNCHANGED <<job, resp, failsLeft, now, lockTs, statusRec, partials, resultsCsv,
                   hpc, batchLines, dl, sq>>

(***************************************************************************)
(* writeStatus as called by a worker (callWithRetry, doChunk).             *)
(***************************************************************************)
WSites == {"ws_retry", "ws_giveup", "ws_backoff", "ws_done"}

WStatus(site) == IF site = "ws_giveup" THEN "failed" ELSE "running"

WExtra(wrk, site) ==
    CASE site \in {"ws_giveup", "ws_backoff"} ->
           [NoExtra EXCEPT !.lastErrorStatus = wrk.status]
      [] site = "ws_done" ->
           [NoExtra EXCEPT !.completedChunks = wrk.cc,
                           !.totalChunks = TotalChunks,
                           !.processedRows = wrk.pr,
                           !.partial = TRUE]
      [] OTHER -> NoExtra

WMsg(site) ==
    CASE site = "ws_retry" -> "retry"
      [] site = "ws_giveup" -> "giveup"
      [] site = "ws_backoff" -> "backoff"
      [] OTHER -> "done"

WWsRead(v, w) ==
    /\ wk[v][w].pc \in WSites
    /\ wk[v][w].phase = "r"
    /\ wk' = [wk EXCEPT ![v][w].phase = "w", ![v][w].prev = statusRec]
    /\ UNCHANGED <<job, resp, failsLeft, now, lockTs, statusRec, partials, resultsCsv,
                   hpc, hloc, batchLines, dl, sq>>

\* the write, and the code up to the worker's next await
WWsWrite(v, w) ==
    /\ wk[v][w].pc \in WSites
    /\ wk[v][w].phase = "w"
    /\ statusRec' = StatusPayload(wk[v][w].prev, WStatus(wk[v][w].pc),
                                  WExtra(wk[v][w], wk[v][w].pc), WMsg(wk[v][w].pc))
    /\ LET wrk == [wk[v][w] EXCEPT !.phase = "r", !.prev = NoStatus]
       IN  CASE wrk.pc = "ws_retry" ->
                  \* return await fn()
                  /\ wk' = [wk EXCEPT ![v][w] = [wrk EXCEPT !.pc = "call"]]
                  /\ hloc' = [hloc EXCEPT ![v].calls[wrk.idx + 1] = @ + 1]
             [] wrk.pc = "ws_giveup" ->
                  \* throw err; finally clearInterval(beat)
                  /\ wk' = [wk EXCEPT ![v][w] = [wrk EXCEPT !.pc = "thrown", !.beat = FALSE]]
                  /\ hloc' = hloc
             [] wrk.pc = "ws_backoff" ->
                  /\ wk' = [wk EXCEPT ![v][w] = [wrk EXCEPT !.pc = "sleep"]]
                  /\ hloc' = hloc
             [] OTHER ->
                  \* the next turn of the worker's loop
                  LET r == Claim(hloc[v], wrk)
                  IN  /\ wk' = [wk EXCEPT ![v][w] = r.w]
                      /\ hloc' = [hloc EXCEPT ![v] = r.h]
    /\ UNCHANGED <<job, resp, failsLeft, now, lockTs, partials, resultsCsv, hpc,
                   batchLines, dl, sq>>

(***************************************************************************)
(* The handler after the pool: merge, artifact, catch.                     *)
(***************************************************************************)
Thrown(v) == \E w \in Workers : wk[v][w].pc = "thrown"
AllFinished(v) == \A w \in Workers : wk[v][w].pc \in {"finished", "idle"}

\* mutant: the rejection of Promise.all is never delivered to the handler
AwaitAllFulfilledOnly(v) ==
    /\ hpc[v] = "await_all"
    /\ ~Thrown(v)
    /\ AllFinished(v)
    /\ hpc' = [hpc EXCEPT ![v] = "merge"]
    /\ hloc' = [hloc EXCEPT ![v].mergeIdx = 0, ![v].ms = InitMerge(job.n)]
    /\ UNCHANGED <<job, resp, failsLeft, now, lockTs, statusRec, partials, resultsCsv,
                   wk, batchLines, dl, sq>>

\* await Promise.all(...) settles: rejected by the first throw, else fulfilled
AwaitAll(v) ==
    /\ hpc[v] = "await_all"
    /\ \/ /\ Thrown(v)
          /\ hpc' = [hpc EXCEPT ![v] = "ws_fatal"]
          /\ hloc' = hloc
       \/ /\ ~Thrown(v)
          /\ AllFinished(v)
          /\ hpc' = [hpc EXCEPT ![v] = "merge"]
          /\ hloc' = [hloc EXCEPT ![v].mergeIdx = 0, ![v].ms = InitMerge(job.n)]
    /\ UNCHANGED <<job, resp, failsLeft, now, lockTs, statusRec, partials, resultsCsv,
                   wk, batchLines, dl, sq>>

\* mutant: the merge reads parts[] only, never the store
PartForMemoryOnly(h, idx) == h.parts[idx + 1]

\* const part = parts[idx] || await store.get(partials/<id>/<idx>.json)
PartFor(h, idx) == IF Truthy(h.parts[idx + 1]) THEN h.parts[idx + 1] ELSE partials[idx + 1]

\* one turn of "for (let idx = 0; idx < totalChunks; idx++)"
MergeStep(v) ==
    /\ hpc[v] = "merge"
    /\ hloc[v].mergeIdx < TotalChunks
    /\ hloc' = [hloc EXCEPT ![v].ms = MergePart(@, PartFor(hloc[v], hloc[v].mergeIdx), job.n),
                            ![v].mergeIdx = @ + 1]
    /\ UNCHANGED <<job, resp, failsLeft, now, lockTs, statusRec, partials, resultsCsv,
                   hpc, wk, batchLines, dl, sq>>

\* mutant: the handler goes on to the ready status without storing the artifact
ArtifactSkipped(v) ==
    /\ hpc[v] = "merge"
    /\ hloc[v].mergeIdx >= TotalChunks
    /\ hpc' = [hpc EXCEPT ![v] = "ws_ready"]
    /\ UNCHANGED <<job, resp, failsLeft, now, lockTs, statusRec, partials, resultsCsv,
                   hloc, wk, batchLines, dl, sq>>

\* await store.set(results/<id>.csv, csvWithBom)
ArtifactWrite(v) ==
    /\ hpc[v] = "merge"
    /\ hloc[v].mergeIdx >= TotalChunks
    /\ resultsCsv' = TableOf(hloc[v].ms, job.n)
    /\ hpc' = [hpc EXCEPT ![v] = "ws_ready"]
    /\ UNCHANGED <<job, resp, failsLeft, now, lockTs, statusRec, partials, hloc, wk,
                   batchLines, dl, sq>>

(***************************************************************************)
(* batch-create: the JSONL lines of the batch flow.                        *)
(***************************************************************************)
BatchCreate ==
    /\ batchLines = <<>>
    /\ job.n > 0
    /\ batchLines' = BuildLines(job.n, job.chunkSize)
    /\ UNCHANGED <<job, resp, failsLeft, now, lockTs, statusRec, partials, resultsCsv,
                   hpc, hloc, wk, dl, sq>>

(***************************************************************************)
(* batch-download for a direct job: the finished CSV, or with partial=1    *)
(* the merge of the partials the status record's counters point at.        *)
(***************************************************************************)
\* seen records the parts the merge loop read, in the order of the loop; snap
\* records the partials that were stored when the request arrived; before is the
\* table an earlier partial request of the client was answered with; by names the
\* function that merged a batch output
Dl0 ==
    [pc |-> "idle", partial |-> FALSE, n |-> 0, status |-> "", upper |-> 0, i |-> 0,
     ms |-> InitMerge(0), seen |-> <<>>, snap |-> <<>>, table |-> NoTable,
     before |-> NoTable, by |-> ""]

\* directCsvText = await store.get(results/<id>.csv); a string and !wantPartial: sent
DlOpen ==
    /\ dl.pc = "idle"
    /\ \E wantPartial \in BOOLEAN :
         dl' = IF ~wantPartial
               THEN IF resultsCsv # NoTable
                    THEN [dl EXCEPT !.pc = "sent", !.table = resultsCsv]
                    ELSE [dl EXCEPT !.pc = "batch"]
               ELSE [dl EXCEPT !.pc = "meta", !.partial = TRUE, !.snap = partials]
    /\ UNCHANGED <<job, resp, failsLeft, now, lockTs, statusRec, partials, resultsCsv,
                   hpc, hloc, wk, batchLines, sq>>

\* meta = await store.get(jobs/<id>.json); if (meta && !meta.batchId) ... else batch path
DlMeta ==
    /\ dl.pc = "meta"
    /\ dl' = [dl EXCEPT !.pc = IF job.meta THEN "csv" ELSE "batch"]
    /\ UNCHANGED <<job, resp, failsLeft, now, lockTs, statusRec, partials, resultsCsv,
                   hpc, hloc, wk, batchLines, sq>>

\* csvTxt = await store.get(csv/<id>.csv); if (!csvTxt) return 404; rows = csvParse
DlCsv ==
    /\ dl.pc = "csv"
    /\ dl' = IF job.csv
             THEN [dl EXCEPT !.pc = "status",
                             !.n = Len(CsvParse(job.n, job.blank, FALSE))]
             ELSE [dl EXCEPT !.pc = "notfound"]
    /\ UNCHANGED <<job, resp, failsLeft, now, lockTs, statusRec, partials, resultsCsv,
                   hpc, hloc, wk, batchLines, sq>>

\* Number(a || b): a when it is truthy
OrElse(a, b) == IF a # 0 THEN a ELSE b

\* statusJson = await store.get(status); totalChunks, completedChunks;
\* merged = rows.map(...); upper = completedChunks || totalChunks || 0
DlStatus ==
    /\ dl.pc = "status"
    /\ LET totalChunks == OrElse(statusRec.totalChunks, CeilDiv(dl.n, job.chunkSize))
           completedChunks == OrElse(statusRec.completedChunks, 0)
       IN  dl' = [dl EXCEPT !.pc = "loop", !.i = 0, !.status = statusRec.status,
                            !.ms = InitMergeOf(CsvParse(job.n, job.blank, FALSE)),
                            !.upper = OrElse(completedChunks, OrElse(totalChunks, 0))]
    /\ UNCHANGED <<job, resp, failsLeft, now, lockTs, statusRec, partials, resultsCsv,
                   hpc, hloc, wk, batchLines, sq>>

\* for (let i = 0; i < upper; i++) { part = await store.get(partials/<id>/<i>.json); ... }
DlPart ==
    /\ dl.pc = "loop"
    /\ dl.i < dl.upper
    /\ LET part == IF dl.i < Len(partials) THEN partials[dl.i + 1] ELSE JNull
       IN  dl' = [dl EXCEPT !.i = dl.i + 1,
                            !.ms = MergePart(dl.ms, part, dl.n),
                            !.seen = Append(dl.seen, part)]
    /\ UNCHANGED <<job, resp, failsLeft, now, lockTs, statusRec, partials, resultsCsv,
                   hpc, hloc, wk, batchLines, sq>>

\* headers, csvStringify, return res(200, ensureUtf8Bom(csvStr), { "X-Partial": "1" })
DlSend ==
    /\ dl.pc = "loop"
    /\ dl.i >= dl.upper
    /\ dl' = [dl EXCEPT !.pc = "sent", !.table = TableOf(dl.ms, dl.n)]
    /\ UNCHANGED <<job, resp, failsLeft, now, lockTs, statusRec, partials, resultsCsv,
                   hpc, hloc, wk, batchLines, sq>>

(***************************************************************************)
(* direct-status: the status record, and a look at results/<id>.csv when   *)
(* the record does not say "ready".                                        *)
(***************************************************************************)
\* failedBefore records whether an invocation had returned with a failure when the
\* query arrived
Sq0 ==
    [pc |-> "idle", statusJson |-> NoStatus, failedBefore |-> FALSE,
     answer |-> [code |-> 0, ready |-> FALSE, status |-> "", error |-> NullVal,
                 completedChunks |-> 0, events |-> <<>>]]

\* res(200, { ready, status, error: statusJson?.error || null, ..., events.slice(-10) })
StatusBody(statusJson, csvExists) ==
    LET ready == (statusJson.exists /\ statusJson.status = "ready") \/ csvExists
    IN  [code |-> 200,
         ready |-> ready,
         status |-> IF ready THEN "ready"
                    ELSE IF statusJson.exists /\ statusJson.status # ""
                    THEN statusJson.status ELSE "running",
         error |-> IF statusJson.exists /\ "error" \in DOMAIN statusJson
                   THEN statusJson["error"] ELSE NullVal,
         completedChunks |-> statusJson.completedChunks,
         events |-> LastN(statusJson.events, 10)]

\* statusJson = await store.get(status); a record that says "ready" is answered at once
SqStatus ==
    /\ sq.pc = "idle"
    /\ LET failed == \E v \in Inv : hpc[v] \in {"ret_nometa", "ret_nocsv", "ret_error"}
       IN  sq' = IF statusRec.exists /\ statusRec.status = "ready"
                 THEN [sq EXCEPT !.pc = "answered", !.statusJson = statusRec,
                                 !.failedBefore = failed,
                                 !.answer = StatusBody(statusRec, FALSE)]
                 ELSE [sq EXCEPT !.pc = "csv", !.statusJson = statusRec,
                                 !.failedBefore = failed]
    /\ UNCHANGED <<job, resp, failsLeft, now, lockTs, statusRec, partials, resultsCsv,
                   hpc, hloc, wk, batchLines, dl>>

\* csvExists = typeof (await store.get(results/<id>.csv)) === "string"; return res(200, ...)
SqCsv ==
    /\ sq.pc = "csv"
    /\ sq' = [sq EXCEPT !.pc = "answered",
                        !.answer = StatusBody(sq.statusJson, resultsCsv # NoTable)]
    /\ UNCHANGED <<job, resp, failsLeft, now, lockTs, statusRec, partials, resultsCsv,
                   hpc, hloc, wk, batchLines, dl>>

(***************************************************************************)
(* The batch flow: the output file of a completed batch has one line per   *)
(* request line, with the custom_id of the request and either the text of  *)
(* the response or an error.  batch-download.js and batch-download.mjs     *)
(* each merge it into the original rows.                                   *)
(***************************************************************************)
\* the text of a completion that is not JSON
RawText == "<raw text>"
\* obj.error.message of a line that reports a failed request
ErrMsg == "boom"
\* body.output_text of output line i: "" for a line that reports an error
OutText(i) ==
    CASE resp[i] = "err" -> ""
      [] resp[i] = "bad" -> RawText
      [] resp[i] = "empty" -> "{}"
      [] OTHER -> "<json>"

RECURSIVE AssignByArray(_, _, _, _, _)
\* batch-download.js: idx = Number.isFinite(Number(item?.id)) ? Number(item.id) : baseIndex + j
AssignByArray(ms, arr, base, n, p) ==
    IF p > Len(arr) THEN ms
    ELSE LET idx == IF ToNumber(arr[p].id) # NaN THEN ToNumber(arr[p].id) ELSE base + (p - 1)
         IN  AssignByArray(ApplyItem(ms, [arr[p] EXCEPT !.id = NumId(idx)], n),
                           arr, base, n, p + 1)

RECURSIVE JsLines(_, _)
\* batch-download.js: for (const line of jsonlLines) { base, text, parsed; assign }
JsLines(ms, i) ==
    IF i > Len(batchLines) THEN ms
    ELSE LET base == batchLines[i].custom_id
             parsed == IF OutText(i) = "" THEN JNull
                       ELSE RespBody(resp[i], ChunkLo(i - 1), ChunkHi(i - 1), job.n)
             next == IF Truthy(parsed) /\ HasResultsArray(parsed)
                     THEN AssignByArray(ms, parsed.items, base, job.n, 1)
                     ELSE IF OutText(i) # ""
                     THEN AssignByArray(ms, <<ResultItem(NumId(base), OutText(i))>>,
                                        base, job.n, 1)
                     ELSE ms
         IN  JsLines(next, i + 1)

\* b = await client.batches.retrieve(id); meta; origCsvTxt; rows = csvParse(...)
DlBatchOpen ==
    /\ dl.pc = "batch"
    /\ batchLines # <<>>
    /\ dl' = [dl EXCEPT !.pc = IF job.meta /\ job.csv THEN "b_file" ELSE "notfound"]
    /\ UNCHANGED <<job, resp, failsLeft, now, lockTs, statusRec, partials, resultsCsv,
                   hpc, hloc, wk, batchLines, sq>>

\* the output file arrives: the loop over its lines, headers, csvStringify, res(200)
DlBatchMerge ==
    /\ dl.pc = "b_file"
    /\ dl' = [dl EXCEPT !.pc = "sent", !.by = "js",
                        !.table = TableOf(JsLines(InitMerge(job.n), 1), job.n)]
    /\ UNCHANGED <<job, resp, failsLeft, now, lockTs, statusRec, partials, resultsCsv,
                   hpc, hloc, wk, batchLines, sq>>

RECURSIVE MjsAssign(_, _, _, _)
\* batch-download.mjs assignByArray: merged[idx].result = item.result when it is a
\* string, else item.toString()
MjsAssign(merged, arr, base, p) ==
    IF p > Len(arr) THEN merged
    ELSE LET idx == IF ToNumber(arr[p].id) # NaN THEN ToNumber(arr[p].id) ELSE base + (p - 1)
             val == IF arr[p].form = "result" THEN arr[p].result ELSE "[object Object]"
         IN  MjsAssign(IF idx >= 0 /\ idx < Len(merged)
                       THEN [merged EXCEPT ![idx + 1] = val] ELSE merged,
                       arr, base, p + 1)

RECURSIVE MjsLines(_, _)
\* batch-download.mjs: for (const line of lines) { success path; error path }, with
\* merged the "result" field of each row and K = Number(meta.chunkSize || 1) || 1
MjsLines(merged, i) ==
    IF i > Len(batchLines) THEN merged
    ELSE LET base == batchLines[i].custom_id
             parsed == RespBody(resp[i], ChunkLo(i - 1), ChunkHi(i - 1), job.n)
             next ==
                IF OutText(i) # ""
                THEN IF Truthy(parsed) /\ HasResultsArray(parsed)
                     THEN MjsAssign(merged, parsed.items, base, 1)
                     ELSE IF base >= 0 /\ base < Len(merged)
                     THEN [merged EXCEPT ![base + 1] = OutText(i)]
                     ELSE merged
                ELSE [r \in 1..Len(merged) |->
                        IF \E j \in 0..(job.chunkSize - 1) : r - 1 = base + j
                        THEN "ERROR: " \o ErrMsg ELSE merged[r]]
         IN  MjsLines(next, i + 1)

\* batch-download.mjs, a request for the table of a batch in a terminal state:
\* batches.retrieve, meta, csvBuf, rows, merged = rows.map(r => ({...r, result: ""}))
MjsOpen ==
    /\ dl.pc = "idle"
    /\ batchLines # <<>>
    /\ dl' = [dl EXCEPT !.pc = IF job.meta /\ job.csv THEN "m_file" ELSE "notfound"]
    /\ UNCHANGED <<job, resp, failsLeft, now, lockTs, statusRec, partials, resultsCsv,
                   hpc, hloc, wk, batchLines, sq>>

\* the output file arrives: the loop, stringifyCsvSync(merged, { header: true })
MjsMerge ==
    /\ dl.pc = "m_file"
    /\ LET merged == MjsLines([r \in 1..job.n |-> ""], 1)
       IN  dl' = [dl EXCEPT !.pc = "sent", !.by = "mjs",
                           !.table = [headers |-> OriginalHeaders(job.n) \o <<"result">>,
                                      rows |-> [r \in 1..job.n |->
                                                  <<OrigText(r - 1), merged[r]>>]]]
    /\ UNCHANGED <<job, resp, failsLeft, now, lockTs, statusRec, partials, resultsCsv,
                   hpc, hloc, wk, batchLines, sq>>

\* the client, answered with a partial view, asks once more
DlAgain ==
    /\ dl.pc = "sent"
    /\ dl.partial
    /\ dl.before = NoTable
    /\ dl' = [Dl0 EXCEPT !.before = dl.table]
    /\ UNCHANGED <<job, resp, failsLeft, now, lockTs, statusRec, partials, resultsCsv,
                   hpc, hloc, wk, batchLines, sq>>

(***************************************************************************)
(* Initial states.                                                         *)
(***************************************************************************)
\* n counts the data lines of csv/<id>.csv that are not empty; blank = b > 0 says that
\* an empty line follows the b-th of them
Job(n, k, c, meta, csv, fails) ==
    [n |-> n, chunkSize |-> k, concurrency |-> c, meta |-> meta, csv |-> csv, fails |-> fails,
     blank |-> 0]

\* the record a run that failed after storing the partials of `pre` left behind
PriorStatus(pre) ==
    IF pre = {} THEN NoStatus
    ELSE [exists |-> TRUE, status |-> "failed", totalChunks |-> TotalChunks,
          concurrency |-> Concurrency(job.concurrency),
          completedChunks |-> Cardinality(pre),
          processedRows |-> ProcessedRows(Cardinality(pre)),
          partial |-> TRUE, lastErrorStatus |-> 400, events |-> <<"giveup", "fatal">>]

\* The store as batch-create and earlier invocations left it: the partials of the
\* chunks in `pre` are stored, and the invocations in `starters` are about to run.
InitWith(jobs, tags, prefixOnly, starters, budget, leases) ==
    /\ job \in jobs
    /\ resp \in [1..TotalChunks -> tags]
    /\ failsLeft = budget
    /\ now = 1
    /\ lockTs \in leases
    /\ \E pre \in SUBSET (0..(TotalChunks - 1)) :
         /\ prefixOnly => \E i \in 0..TotalChunks : pre = 0..(i - 1)
         /\ partials = [p \in 1..TotalChunks |->
                          IF (p - 1) \in pre THEN PartialBody(Parsed(p - 1)) ELSE JNull]
         /\ statusRec = PriorStatus(pre)
    /\ resultsCsv = NoTable
    /\ hpc = [v \in Inv |-> IF v \in starters THEN "start" ELSE "off"]
    /\ hloc = [v \in Inv |-> HLocal0]
    /\ wk = [v \in Inv |-> [w \in Workers |-> Worker0]]
    /\ batchLines = <<>>
    /\ dl = Dl0
    /\ sq = Sq0

(***************************************************************************)
(* Spec: one invocation of the worker on a fresh or partly processed job.  *)
(***************************************************************************)
SpecJobs ==
    {Job(n, k, c, TRUE, TRUE, {429, 400}) :
        n \in 0..MaxRows, k \in {2, 3}, c \in {1, 2}}

Init == InitWith(SpecJobs, {"cols", "bad"}, FALSE, {1}, MaxFailures, {0})

HandlerStep(v) ==
    \/ AcquireRead(v)
    \/ AcquireWrite(v)
    \/ HWsRead(v)
    \/ HWsWrite(v)
    \/ MetaGet(v)
    \/ CsvGet(v)
    \/ ResumeScan(v)
    \/ Spawn(v)
    \/ AwaitAll(v)
    \/ MergeStep(v)
    \/ ArtifactWrite(v)
    \/ ReleaseLock(v)

WorkerStep(v, w) ==
    \/ CallOk(v, w)
    \/ CallFail(v, w)
    \/ Backoff(v, w)
    \/ PersistPartial(v, w)
    \/ WWsRead(v, w)
    \/ WWsWrite(v, w)

Next ==
    \/ \E v \in Inv : HandlerStep(v)
    \/ \E v \in Inv, w \in Workers : WorkerStep(v, w)

Spec == Init /\ [][Next]_vars

(***************************************************************************)
(* C1. Monotonic counters: from one persisted status record to the next,   *)
(* completedChunks and processedRows never decrease, under any interleaving*)
(* of the read and the write of concurrent status updates.                 *)
(***************************************************************************)
C1_CountersNeverDecrease ==
    [][/\ statusRec'.completedChunks >= statusRec.completedChunks
       /\ statusRec'.processedRows >= statusRec.processedRows]_vars

(***************************************************************************)
(* Reference tables.                                                       *)
(***************************************************************************)
\* the invocation has written results/<id>.csv
Wrote(v) == hpc[v] \in {"ws_ready", "rel_ok", "ret_ok"}

\* the invocation has passed the resume scan
Scanned(v) == hpc[v] \in {"ws_plan", "spawn", "await_all", "merge", "ws_ready", "rel_ok",
                          "ret_ok", "ws_fatal", "rel_fatal", "ret_error"}

\* the resume scan of v found exactly the partials of chunks [0, i)
ResumedAt(v, i) ==
    /\ Scanned(v)
    /\ \A p \in 1..TotalChunks : hloc[v].scanned[p] <=> (p - 1 < i)

RECURSIVE MergeFrom(_, _, _)
MergeFrom(ms, parts, p) ==
    IF p > Len(parts) THEN ms ELSE MergeFrom(MergePart(ms, parts[p], job.n), parts, p + 1)

\* The table of a run that starts with no partial stored and in which every
\* completion call succeeds at once: parts[idx] is the parsed response, and a
\* falsy one is read back from the store as {}.
UninterruptedTable ==
    TableOf(MergeFrom(InitMerge(job.n),
                      [p \in 1..TotalChunks |->
                         IF Truthy(Parsed(p - 1)) THEN Parsed(p - 1)
                         ELSE PartialBody(Parsed(p - 1))],
                      1),
            job.n)

\* The cell writes the responses ask for, chunk by chunk and result by result.
ItemWrites(item) ==
    LET r == ToNumber(item.id)
    IN  IF r = NaN \/ r < 0 \/ r >= job.n THEN <<>>
        ELSE IF item.form = "cols"
             THEN [q \in 1..Len(item.cols) |->
                     [row |-> r, col |-> item.cols[q].k, val |-> ColValue(item.cols[q].v)]]
        ELSE IF item.form = "result"
             THEN <<[row |-> r, col |-> "result", val |-> item.result]>>
        ELSE <<>>

RECURSIVE ItemsWrites(_, _)
ItemsWrites(items, q) ==
    IF q > Len(items) THEN <<>> ELSE ItemWrites(items[q]) \o ItemsWrites(items, q + 1)

RECURSIVE WritesFrom(_)
WritesFrom(p) ==
    IF p > TotalChunks THEN <<>>
    ELSE (IF HasResultsArray(Parsed(p - 1)) THEN ItemsWrites(Parsed(p - 1).items, 1) ELSE <<>>)
         \o WritesFrom(p + 1)

AllWrites == WritesFrom(1)

\* the dynamic columns, each at its first write
FirstSeenCols(W) ==
    LET firsts == {i \in 1..Len(W) : \A j \in 1..(i - 1) : W[j].col # W[i].col}
        nth[k \in 1..Cardinality(firsts)] ==
            CHOOSE i \in firsts : Cardinality({j \in firsts : j < i}) = k - 1
    IN  [k \in 1..Cardinality(firsts) |-> W[nth[k]].col]

\* the last value written to a cell, else what the row held before the merge
ExpectedCell(W, r, c) ==
    LET hits == {i \in 1..Len(W) : W[i].row = r /\ W[i].col = c}
    IN  IF hits = {} THEN (IF c = "text" THEN OrigText(r) ELSE "")
        ELSE W[CHOOSE i \in hits : \A j \in hits : j <= i].val

HasErrorMessage(rec) ==
    \E p \in 1..Len(rec.events) : rec.events[p] \in {"giveup", "fatal"}

C4_FailedAtReturn ==
    [][\A v \in Inv :
         (hpc[v] = "rel_fatal" /\ hpc'[v] = "ret_error") =>
             /\ statusRec'.status = "failed"
             /\ HasErrorMessage(statusRec')
             /\ resultsCsv' = NoTable]_vars

(***************************************************************************)
(* C6. The final table has one row per original row, in the original      *)
(* order, and each cell holds the last value the responses write to it,    *)
(* whatever the order in which the workers claim and complete the chunks.  *)
(***************************************************************************)
C6_TableInRowOrder ==
    \A v \in Inv :
        Wrote(v) =>
            /\ Len(resultsCsv.rows) = job.n
            /\ resultsCsv.headers = OriginalHeaders(job.n) \o FirstSeenCols(AllWrites)
            /\ \A r \in 1..job.n : \A h \in 1..Len(resultsCsv.headers) :
                   resultsCsv.rows[r][h] = ExpectedCell(AllWrites, r - 1, resultsCsv.headers[h])

C6_Witness ==
    /\ hpc[1] = "ret_ok"
    /\ hloc[1].claimed = <<0, 1>>
    /\ hloc[1].finished = <<1, 0>>
    /\ resp = <<"cols", "cols">>
    /\ job.n = 3

(***************************************************************************)
(* C8. Retry transparency: a chunk whose completion call failed with a     *)
(* retryable status before it succeeded leaves the partial, and the run    *)
(* the final table, of a run whose calls all succeed at once.              *)
(***************************************************************************)
C8_RetryTransparent ==
    \A v \in Inv : \A p \in 1..Len(hloc[v].calls) :
        (hloc[v].calls[p] > 1 /\ \E q \in 1..Len(hloc[v].finished) : hloc[v].finished[q] = p - 1) =>
            /\ partials[p] = PartialBody(Parsed(p - 1))
            /\ Wrote(v) => resultsCsv = UninterruptedTable

C8_Witness ==
    /\ hpc[1] = "ret_ok"
    /\ \E p \in 1..Len(hloc[1].calls) : hloc[1].calls[p] = 3 /\ resp[p] = "cols"
    /\ statusRec.lastErrorStatus = 429

(***************************************************************************)
(* C10. Re-invocation: no completion call is issued for a chunk whose      *)
(* partial the resume scan found, every other chunk is processed before    *)
(* the merge, and when the scan found them all the worker issues no call   *)
(* and goes on to write the table and the ready state.                     *)
(***************************************************************************)
C10_SkipsFinishedChunks ==
    \A v \in Inv :
        Scanned(v) =>
            /\ \A p \in 1..TotalChunks : hloc[v].scanned[p] => hloc[v].calls[p] = 0
            /\ (hpc[v] = "merge" \/ Wrote(v)) =>
                   \A p \in 1..TotalChunks :
                       ~hloc[v].scanned[p] =>
                           /\ hloc[v].calls[p] >= 1
                           /\ hloc[v].done[p]
                           /\ Truthy(partials[p])
            /\ (\A p \in 1..TotalChunks : hloc[v].scanned[p]) =>
                   /\ \A w \in Workers : wk[v][w].pc \in {"idle", "finished"}
                   /\ hpc[v] \notin {"ws_fatal", "rel_fatal", "ret_error"}

C10_Witness ==
    /\ hpc[1] = "ret_ok"
    /\ TotalChunks = 2
    /\ hloc[1].scanned = <<TRUE, TRUE>>
    /\ statusRec.status = "ready"
    /\ hloc[1].calls = <<0, 0>>

(***************************************************************************)
(* SpecPlan: the planner on every row count and chunk size of the bounds:  *)
(* the worker up to its plan status, and batch-create's JSONL lines.       *)
(***************************************************************************)
PlanJobs ==
    {Job(n, k, 1, TRUE, TRUE, {}) : n \in 0..MaxPlanRows, k \in 1..MaxPlanK}

InitPlan == InitWith(PlanJobs, {"cols"}, TRUE, {1}, 0, {0})

PlanStep(v) ==
    \/ AcquireRead(v)
    \/ AcquireWrite(v)
    \/ HWsRead(v)
    \/ HWsWrite(v)
    \/ MetaGet(v)
    \/ CsvGet(v)
    \/ ResumeScan(v)

NextPlan ==
    \/ \E v \in Inv : PlanStep(v)
    \/ BatchCreate

SpecPlan == InitPlan /\ [][NextPlan]_vars

\* the least c with c * k >= n
CeilOf(n, k) == CHOOSE c \in 0..n : c * k >= n /\ (c = 0 \/ (c - 1) * k < n)

\* the ids lo, lo + 1, ..., hi - 1 in order
IdRange(lo, hi) == [j \in 1..(hi - lo) |-> lo + (j - 1)]

\* chunk i (0-based) of idsOf holds exactly the ids [i*K, min((i+1)*K, N)) and
\* every id of [0, N) is in exactly one chunk
PartitionsRows(idsOf, N, K) ==
    /\ Len(idsOf) = CeilOf(N, K)
    /\ \A i \in 1..Len(idsOf) : idsOf[i] = IdRange((i - 1) * K, Min(i * K, N))
    /\ \A r \in 0..(N - 1) :
         Cardinality({i \in 1..Len(idsOf) :
                        \E j \in 1..Len(idsOf[i]) : idsOf[i][j] = r}) = 1
    /\ \A i \in 1..Len(idsOf) : \A j \in 1..Len(idsOf[i]) : idsOf[i][j] \in 0..(N - 1)

(***************************************************************************)
(* C5. For N >= 0 rows and chunk size K >= 1 the planner makes exactly     *)
(* ceil(N/K) chunks, chunk i holds the ids [i*K, min((i+1)*K, N)) in       *)
(* order, and the chunks partition [0, N): in the worker (chunks, done[],  *)
(* the totalChunks of the plan status) and in batch-create's JSONL lines.  *)
(***************************************************************************)
C5_ChunksPartitionRows ==
    /\ PartitionsRows(Chunks, job.n, job.chunkSize)
    /\ \A v \in Inv :
         hpc[v] \in {"ws_plan", "spawn"} =>
            Len(hloc[v].done) = CeilOf(job.n, job.chunkSize)
    /\ \A v \in Inv :
         hpc[v] = "spawn" => statusRec.totalChunks = CeilOf(job.n, job.chunkSize)
    /\ batchLines # <<>> =>
         /\ PartitionsRows([i \in 1..Len(batchLines) |-> batchLines[i].ids],
                           job.n, job.chunkSize)
         /\ \A i \in 1..Len(batchLines) :
              batchLines[i].custom_id = (i - 1) * job.chunkSize

\* a plan whose last chunk is short, in the worker and in batch-create
C5_Witness ==
    /\ job.n = 7 /\ job.chunkSize = 3
    /\ hpc[1] = "spawn"
    /\ statusRec.totalChunks = 3
    /\ Len(batchLines) = 3
    /\ Len(batchLines[3].ids) = 1

(***************************************************************************)
(* SpecLease: two invocations for the same job start; a lease an earlier   *)
(* invocation left behind may exist; time passes and the heartbeat         *)
(* callbacks run.  Each invocation is followed from acquireLock to its     *)
(* first completion call, or to its return when the job's meta or CSV is   *)
(* missing.                                                                *)
(***************************************************************************)
LeaseJobs ==
    {Job(n, MaxLeaseRows, 1, meta, csv, {}) :
        n \in 1..MaxLeaseRows, meta \in BOOLEAN, csv \in BOOLEAN}

InitLease == InitWith(LeaseJobs, {"cols"}, TRUE, Inv, 0, {0, 1})

LeaseStep(v) ==
    \/ AcquireRead(v)
    \/ AcquireWrite(v)
    \/ HWsRead(v)
    \/ HWsWrite(v)
    \/ MetaGet(v)
    \/ CsvGet(v)
    \/ ResumeScan(v)
    \/ Spawn(v)
    \/ ReleaseLock(v)
    \/ Heartbeat(v)

NextLease ==
    \/ \E v \in Inv : LeaseStep(v)
    \/ \E v \in Inv, w \in Workers : CallOk(v, w)
    \/ Tick

SpecLease == InitLease /\ [][NextLease]_vars

\* the invocation issued a completion call
Worked(v) == \E p \in 1..Len(hloc[v].calls) : hloc[v].calls[p] > 0

\* the invocation returned false from acquireLock
Declined(v) == hpc[v] \in {"ws_declined", "ret_ignored"}

\* the step is one of invocation v
StepOf(v) == hpc'[v] # hpc[v] \/ hloc'[v] # hloc[v] \/ wk'[v] # wk[v]

(***************************************************************************)
(* C2. Two invocations that start at the same instant: at most one of them *)
(* issues completion calls, whatever the interleaving of the read and the  *)
(* write of their acquire steps.                                           *)
(***************************************************************************)
C2_OneInvocationWorks ==
    now = 1 => Cardinality({v \in Inv : Worked(v)}) <= 1

(***************************************************************************)
(* C9. acquireLock declines exactly when the lease record it read exists   *)
(* and is younger than the TTL; otherwise it writes a lease with the       *)
(* current time and the invocation proceeds.  An invocation that declined  *)
(* issues no completion call, runs no worker and no heartbeat, and its     *)
(* steps leave the lease record, the partials and the artifact as they     *)
(* were.                                                                   *)
(***************************************************************************)
C9_DeclineIffLiveLease ==
    /\ [](\A v \in Inv :
            /\ hpc[v] \notin {"off", "start"} =>
                  (Declined(v) <=>
                      (hloc[v].lock # 0 /\ hloc[v].now - hloc[v].lock < LOCK_TTL_MS))
            /\ Declined(v) =>
                  /\ ~Worked(v)
                  /\ ~hloc[v].lockTimer
                  /\ \A w \in Workers : wk[v][w] = Worker0)
    /\ [][\A v \in Inv :
            /\ (hpc[v] = "acq_write" /\ hpc'[v] # "acq_write") =>
                  (lockTs' = now /\ hpc'[v] = "ws_start" /\ hloc'[v].lockTimer)
            /\ (Declined(v)' /\ StepOf(v)) =>
                  UNCHANGED <<lockTs, partials, resultsCsv>>]_vars

\* invocation 2 found the lease of an earlier invocation expired (its age is the
\* TTL) and took it over; invocation 1 then read the new lease and declined
C9_Witness ==
    /\ hpc[1] = "ret_ignored"
    /\ hloc[1].lock = hloc[2].now
    /\ hloc[2].lock = 1
    /\ hloc[2].now - hloc[2].lock = LOCK_TTL_MS
    /\ hloc[2].lockTimer

(***************************************************************************)
(* SpecView: one invocation works through a job whose completions name     *)
(* columns in several ways, while a client downloads the finished CSV or a *)
(* partial view.                                                           *)
(***************************************************************************)
ViewTags == {"cols", "one", "far", "xrow", "orig", "nullid"}

ViewJobs ==
    {Job(n, 2, c, TRUE, TRUE, {}) : n \in 2..MaxViewRows, c \in {1, 2}}

InitView == InitWith(ViewJobs, ViewTags, FALSE, {1}, 0, {0})

DownloadStep ==
    \/ DlOpen
    \/ DlMeta
    \/ DlCsv
    \/ DlStatus
    \/ DlPart
    \/ DlSend

NextView ==
    \/ \E v \in Inv : HandlerStep(v)
    \/ \E v \in Inv, w \in Workers :
         \/ CallOk(v, w)
         \/ PersistPartial(v, w)
         \/ WWsRead(v, w)
         \/ WWsWrite(v, w)
    \/ DownloadStep

SpecView == InitView /\ [][NextView]_vars

\* the results of the parts: <<p, q>> is result q of part p
ResultsOf(parts) ==
    {pq \in (1..Len(parts)) \X (1..MaxViewRows + 1) :
        /\ Truthy(parts[pq[1]])
        /\ HasResultsArray(parts[pq[1]])
        /\ pq[2] <= Len(parts[pq[1]].items)}

ResultAt(parts, pq) == parts[pq[1]].items[pq[2]]

\* the result names column c
NamesCol(item, c) == item.form = "cols" /\ \E e \in 1..Len(item.cols) : item.cols[e].k = c

\* no result of the parts other than pq names column c, and pq names it once
OnlyNaming(parts, pq, c) ==
    /\ \A other \in ResultsOf(parts) : other # pq => ~NamesCol(ResultAt(parts, other), c)
    /\ Cardinality({e \in 1..Len(ResultAt(parts, pq).cols) :
                       ResultAt(parts, pq).cols[e].k = c}) = 1

\* the row a result's id resolves to: Number(id), so null resolves to row 0
ResolvesTo(item, r) ==
    \/ item.id.t = "num" /\ item.id.n = r
    \/ item.id.t = "null" /\ r = 0

IsOriginal(c, n) == \E h \in 1..Len(OriginalHeaders(n)) : OriginalHeaders(n)[h] = c

\* the text a value is written as: "" for null
Written(v) == IF v = NullVal THEN "" ELSE v

\* the parts the download read, by chunk; JNull for the chunks its loop did not reach
SeenParts == [p \in 1..TotalChunks |-> IF p <= Len(dl.seen) THEN dl.seen[p] ELSE JNull]

\* The statement as first made, on a table merged from parts: the cell of a result
\* {id: r, cols: {c: v}} that alone names c holds v, every other row holds "" in
\* column c, and the rows of a chunk without a part have every dynamic column empty.
MergeAsStated(table, parts, n, K) ==
    /\ \A pq \in ResultsOf(parts) :
         LET item == ResultAt(parts, pq)
         IN  (item.form = "cols" /\ item.id.t = "num") =>
               \A e \in 1..Len(item.cols) :
                  OnlyNaming(parts, pq, item.cols[e].k) =>
                     /\ item.id.n \in 0..(n - 1)
                     /\ \E h \in 1..Len(table.headers) : table.headers[h] = item.cols[e].k
                     /\ \A h \in 1..Len(table.headers) :
                          table.headers[h] = item.cols[e].k =>
                             \A r \in 0..(n - 1) :
                                table.rows[r + 1][h] =
                                   IF r = item.id.n THEN Written(item.cols[e].v) ELSE ""
    /\ \A r \in 0..(n - 1) :
         ~Truthy(parts[(r \div K) + 1]) =>
            \A h \in (Len(OriginalHeaders(n)) + 1)..Len(table.headers) :
               table.rows[r + 1][h] = ""

\* What the merge guarantees: the result must name a row of the table; a column
\* named like an original column keeps the original values in the other rows; and
\* a row keeps its dynamic columns empty when no result of the parts resolves to it.
MergeAsBuilt(table, parts, n) ==
    /\ Len(table.rows) = n
    /\ \A pq \in ResultsOf(parts) :
         LET item == ResultAt(parts, pq)
         IN  (item.form = "cols" /\ item.id.t = "num" /\ item.id.n \in 0..(n - 1)) =>
               \A e \in 1..Len(item.cols) :
                  OnlyNaming(parts, pq, item.cols[e].k) =>
                     /\ \E h \in 1..Len(table.headers) : table.headers[h] = item.cols[e].k
                     /\ \A h \in 1..Len(table.headers) :
                          table.headers[h] = item.cols[e].k =>
                             \A r \in 0..(n - 1) :
                                table.rows[r + 1][h] =
                                   IF r = item.id.n THEN Written(item.cols[e].v)
                                   ELSE IF IsOriginal(item.cols[e].k, n) THEN OrigText(r)
                                   ELSE ""
    /\ \A r \in 0..(n - 1) :
         (\A pq \in ResultsOf(parts) : ~ResolvesTo(ResultAt(parts, pq), r)) =>
            \A h \in (Len(OriginalHeaders(n)) + 1)..Len(table.headers) :
               ~IsOriginal(table.headers[h], n) => table.rows[r + 1][h] = ""

C11_PartialReadSeesAllPartials ==
    (dl.pc = "sent" /\ dl.partial) =>
       \A p \in 1..Len(dl.snap) :
          Truthy(dl.snap[p]) => (p <= Len(dl.seen) /\ dl.seen[p] = dl.snap[p])

\* the handler of the invocation has returned
Returned(v) == hpc[v] \in {"ret_ignored", "ret_nometa", "ret_nocsv", "ret_ok", "ret_error"}

(***************************************************************************)
(* C12. Once a worker of an invocation has raised a fatal failure, and     *)
(* until the invocation returns, no worker of that invocation claims       *)
(* another chunk, starts another completion call or stores another         *)
(* partial.                                                                *)
(***************************************************************************)
C12_FatalAbortsWorkers ==
    [][\A v \in Inv :
          (Thrown(v) /\ ~Returned(v)) =>
             /\ hloc'[v].claimed = hloc[v].claimed
             /\ hloc'[v].calls = hloc[v].calls
             /\ hloc'[v].finished = hloc[v].finished]_vars

(***************************************************************************)
(* SpecRetry: one worker, chunks of one row, and a completion service that *)
(* may fail each call with no status (0) or with a status on either side   *)
(* of every boundary of callWithRetry's classification.                    *)
(***************************************************************************)
RetryStatuses == {0, 400, 429, 499, 500, 599, 600}

RetryJobs == {Job(n, 1, 1, TRUE, TRUE, RetryStatuses) : n \in 1..MaxRetryRows}

InitRetry == InitWith(RetryJobs, {"cols"}, TRUE, {1}, MaxRetryFailures, {0})

SpecRetry == InitRetry /\ [][Next]_vars

\* the classification as the specification words it
IsRetryableStatus(st) == st = 0 \/ st = 429 \/ st \in 500..599

\* the step is the rejection of a completion call of worker w
CallRejected(v, w) ==
    wk[v][w].pc = "call" /\ wk'[v][w].pc \in {"ws_backoff", "ws_giveup"}

\* worker w has given up on its chunk
GaveUp(v, w) == wk[v][w].pc \in {"ws_giveup", "thrown"}

(***************************************************************************)
(* C13 as stated: a failed completion call is retried if and only if its   *)
(* status is 429, in 500..599 or absent.                                   *)
(***************************************************************************)
C13_AsStated ==
    [][\A v \in Inv, w \in Workers :
          CallRejected(v, w) =>
             (wk'[v][w].pc = "ws_backoff" <=> IsRetryableStatus(wk'[v][w].status))]_vars

(***************************************************************************)
(* C13. A failed completion call that is not the sixth attempt for its     *)
(* chunk is retried if and only if its status is 429, in 500..599 or       *)
(* absent; a worker backs off and calls again only after such a failure,   *)
(* and a worker that gave up backs off no more and issues no further call. *)
(***************************************************************************)
C13_RetryIffRetryable ==
    /\ [][\A v \in Inv, w \in Workers :
            /\ (CallRejected(v, w) /\ wk[v][w].attempt < 5) =>
                  (wk'[v][w].pc = "ws_backoff" <=> IsRetryableStatus(wk'[v][w].status))
            /\ GaveUp(v, w) =>
                  /\ GaveUp(v, w)'
                  /\ hloc'[v].calls = hloc[v].calls
                  /\ wk'[v][w].attempt = wk[v][w].attempt]_vars
    /\ [](\A v \in Inv, w \in Workers :
            /\ wk[v][w].pc \in {"ws_backoff", "sleep", "ws_retry"} =>
                  IsRetryableStatus(wk[v][w].status)
            /\ wk[v][w].pc \in {"call", "ws_backoff", "ws_giveup", "thrown"} =>
                  hloc[v].calls[wk[v][w].idx + 1] = wk[v][w].attempt + 1)

\* a call failed with 499 on its second attempt and was raised at once
C13_Witness ==
    /\ wk[1][1].pc = "thrown"
    /\ wk[1][1].status = 499
    /\ wk[1][1].attempt = 1
    /\ hloc[1].calls[wk[1][1].idx + 1] = 2

\* the step is the status write of worker w giving up, followed by its throw
GiveUpWritten(v, w) == wk[v][w].pc = "ws_giveup" /\ wk'[v][w].pc = "thrown"

(***************************************************************************)
(* C14. No chunk gets more than 6 completion calls (5 retries).  A sixth   *)
(* attempt that fails is raised whatever its status, never retried; the    *)
(* raise is preceded by a status write that sets the status to "failed",   *)
(* appends the give-up message to the events and records the status of the *)
(* failure as lastErrorStatus (a failure without a status leaves the       *)
(* lastErrorStatus of the record that was read in place).                  *)
(***************************************************************************)
C14_AtMostFiveRetries ==
    /\ [](\A v \in Inv :
            /\ \A p \in 1..Len(hloc[v].calls) : hloc[v].calls[p] <= 6
            /\ \A w \in Workers : wk[v][w].attempt <= 5)
    /\ [][\A v \in Inv, w \in Workers :
            /\ (CallRejected(v, w) /\ wk[v][w].attempt = 5) => wk'[v][w].pc = "ws_giveup"
            /\ GiveUpWritten(v, w) =>
                  /\ statusRec'.status = "failed"
                  /\ statusRec'.events # <<>>
                  /\ statusRec'.events[Len(statusRec'.events)] = "giveup"
                  /\ statusRec'.lastErrorStatus =
                        IF wk[v][w].status # 0 THEN wk[v][w].status
                        ELSE wk[v][w].prev.lastErrorStatus]_vars

\* five retries were made, the sixth attempt failed with 429 and was raised
C14_Witness ==
    /\ wk[1][1].pc = "thrown"
    /\ wk[1][1].attempt = 5
    /\ wk[1][1].status = 429
    /\ hloc[1].calls[wk[1][1].idx + 1] = 6
    /\ statusRec.status = "failed"
    /\ statusRec.lastErrorStatus = 429

(***************************************************************************)
(* SpecReclaim: an earlier worker stopped without releasing its lease,     *)
(* whose last timestamp is 1; it left some partials behind.  Time passes   *)
(* and one new invocation is made.                                         *)
(***************************************************************************)
ReclaimJobs ==
    {Job(n, 1, c, TRUE, TRUE, {429, 400}) : n \in 1..MaxLeaseRows, c \in {1, 2}}

InitReclaim == InitWith(ReclaimJobs, {"cols"}, FALSE, {1}, MaxFailures, {1})

NextReclaim ==
    \/ \E v \in Inv : HandlerStep(v)
    \/ \E v \in Inv, w \in Workers : WorkerStep(v, w)
    \/ \E v \in Inv : Heartbeat(v)
    \/ Tick

SpecReclaim == InitReclaim /\ [][NextReclaim]_vars

\* the chunks whose partial the invocation has stored itself
StoredBy(v) == {hloc[v].finished[q] : q \in 1..Len(hloc[v].finished)}

(***************************************************************************)
(* C15. After a worker stopped without releasing its lease, an invocation  *)
(* made less than the TTL after the last lease timestamp declines and does *)
(* no chunk work; an invocation made at least the TTL after it takes the   *)
(* lease and resumes: its scan marks exactly the partials left behind, it  *)
(* issues no call for them and leaves them in the store.                   *)
(***************************************************************************)
C15_ReclaimAfterTtl ==
    \A v \in Inv :
       hpc[v] \notin {"off", "start"} =>
          /\ hloc[v].lock # 0
          /\ (hloc[v].now - hloc[v].lock < LOCK_TTL_MS) =>
                /\ Declined(v)
                /\ ~Worked(v)
                /\ ~hloc[v].lockTimer
          /\ (hloc[v].now - hloc[v].lock >= LOCK_TTL_MS) =>
                /\ ~Declined(v)
                /\ (hpc[v] # "acq_write" /\ ~Returned(v)) =>
                      (hloc[v].lockTimer /\ lockTs >= hloc[v].now)
                /\ Scanned(v) =>
                      \A p \in 1..TotalChunks :
                         /\ hloc[v].scanned[p] =>
                               (hloc[v].calls[p] = 0 /\ Truthy(partials[p]))
                         /\ (Truthy(partials[p]) /\ ~hloc[v].scanned[p]) =>
                               (p - 1) \in StoredBy(v)

\* the lease was exactly one TTL old: the invocation took it, skipped chunk 0,
\* whose partial was left behind, processed chunk 1 and finished
C15_Witness ==
    /\ hpc[1] = "ret_ok"
    /\ hloc[1].lock = 1
    /\ hloc[1].now - hloc[1].lock = LOCK_TTL_MS
    /\ hloc[1].scanned = <<TRUE, FALSE>>
    /\ hloc[1].calls = <<0, 1>>

(***************************************************************************)
(* SpecPair: two invocations for the same job are made at the same instant *)
(* and each runs to its return, with the heartbeat callbacks; the job has  *)
(* one chunk, and a completion call may fail with status 400, which is not *)
(* retried.                                                                *)
(***************************************************************************)
PairJobs == {Job(n, MaxLeaseRows, 1, TRUE, TRUE, {400}) : n \in 1..MaxLeaseRows}

InitPair == InitWith(PairJobs, {"cols"}, TRUE, Inv, MaxPairFailures, {0})

PairWorkerStep(v, w) ==
    \/ CallOk(v, w)
    \/ CallFail(v, w)
    \/ PersistPartial(v, w)
    \/ WWsRead(v, w)
    \/ WWsWrite(v, w)

NextPair ==
    \/ \E v \in Inv : HandlerStep(v)
    \/ \E v \in Inv, w \in Workers : PairWorkerStep(v, w)
    \/ \E v \in Inv : Heartbeat(v)

SpecPair == InitPair /\ [][NextPair]_vars

\* the invocation took the lease and its workers are processing chunks
Processing(v) == hpc[v] = "await_all" /\ hloc[v].lockTimer

(***************************************************************************)
(* C16. While an invocation that took the lease is processing chunks, the  *)
(* lease record exists and is younger than the TTL, so that no acquire of  *)
(* another invocation made at that instant finds it absent or expired.     *)
(***************************************************************************)
C16_LeaseHeldWhileProcessing ==
    \A v \in Inv : Processing(v) => (lockTs # 0 /\ now - lockTs < LOCK_TTL_MS)

\* v held the lease, has released it and returned, and no other invocation was made
ReleasedAlone(v) ==
    /\ hpc[v] \in {"ret_nometa", "ret_nocsv", "ret_ok", "ret_error"}
    /\ \A u \in Inv \ {v} : hpc[u] = "off"

(***************************************************************************)
(* C17. When an invocation that held the lease has finished, on success    *)
(* and on fatal error alike, its heartbeat is stopped and the lease record *)
(* is absent, and stays absent as long as no other invocation acquires:    *)
(* the finished invocation writes the lease record no more.                *)
(***************************************************************************)
C17_LeaseStaysReleased ==
    \A v \in Inv : ReleasedAlone(v) => (lockTs = 0 /\ ~hloc[v].lockTimer)

(***************************************************************************)
(* C18. An invocation declined because of a live lease is a no-op on the   *)
(* job: none of its steps changes the status value or the counters of an   *)
(* existing status record, a partial or the final artifact.                *)
(***************************************************************************)
C18_DeclinedIsNoOp ==
    [][\A v \in Inv :
          (Declined(v) /\ StepOf(v) /\ statusRec.exists) =>
             /\ statusRec'.status = statusRec.status
             /\ statusRec'.completedChunks = statusRec.completedChunks
             /\ statusRec'.processedRows = statusRec.processedRows
             /\ UNCHANGED <<partials, resultsCsv>>]_vars

(***************************************************************************)
(* SpecMissing: one invocation on a job whose meta record or original CSV  *)
(* may be missing from the store.                                          *)
(***************************************************************************)
MissingJobs ==
    {Job(n, 1, c, meta, csv, {429, 400}) :
        n \in 1..MaxLeaseRows, c \in {1, 2}, meta \in BOOLEAN, csv \in BOOLEAN}

InitMissing == InitWith(MissingJobs, {"cols"}, FALSE, {1}, MaxFailures, {0})

SpecMissing == InitMissing /\ [][Next]_vars

(***************************************************************************)
(* C19. When the meta record or the original CSV is missing, the worker    *)
(* fails before any chunk work: it plans nothing, issues no completion     *)
(* call, stores no partial and writes no artifact; with the meta missing   *)
(* it does not read the CSV; and when it returns the status is "failed"    *)
(* with the reason as last event, the heartbeat is stopped and the lease   *)
(* record is deleted.                                                      *)
(***************************************************************************)
C19_MissingInputFailsAtOnce ==
    /\ []((~job.meta \/ ~job.csv) =>
            \A v \in Inv :
               /\ ~Worked(v)
               /\ ~Scanned(v)
               /\ hpc[v] \notin {"scan", "ret_ok", "ret_error"}
               /\ ~job.meta => hpc[v] \notin {"csv_get", "ws_meta", "ws_nocsv", "ret_nocsv"}
               /\ \A w \in Workers : wk[v][w] = Worker0
               /\ resultsCsv = NoTable
               /\ Returned(v) =>
                     /\ hpc[v] = IF job.meta THEN "ret_nocsv" ELSE "ret_nometa"
                     /\ statusRec.status = "failed"
                     /\ statusRec.events[Len(statusRec.events)] =
                           IF job.meta THEN "nocsv" ELSE "nometa"
                     /\ lockTs = 0
                     /\ ~hloc[v].lockTimer)
    /\ [][(~job.meta \/ ~job.csv) => partials' = partials]_vars

\* the meta record is there, the CSV is not: the invocation returned 404
C19_Witness ==
    /\ job.meta /\ ~job.csv
    /\ hpc[1] = "ret_nocsv"
    /\ statusRec.status = "failed"
    /\ lockTs = 0

(***************************************************************************)
(* SpecConc: batch-create stores the concurrency it computed from the      *)
(* request, and one invocation works on the job.  The request's            *)
(* concurrency field is absent, not a number, or a number below, inside    *)
(* or above the allowed range.                                             *)
(***************************************************************************)
Requests == {Absent, NaN, -2} \cup (0..MaxRequested)

\* batch-create: Math.max(1, Math.min(MAX_DIRECT_CONCURRENCY,
\* Number(fields.concurrency || query.concurrency || 4))), as JSON.stringify stores
\* it in the meta record: NaN is stored as null, which the worker reads as falsy (0)
CreateConcurrency(req) ==
    IF req = NaN THEN 0
    ELSE Max(1, Min(MAX_DIRECT_CONCURRENCY, IF req = Absent THEN DEFAULT_CONCURRENCY ELSE req))

ConcJobs ==
    {[requested |-> req] @@ Job(n, 1, CreateConcurrency(req), TRUE, TRUE, {429, 400}) :
        req \in Requests, n \in 1..MaxConcRows}

InitConc == InitWith(ConcJobs, {"cols"}, TRUE, {1}, MaxPairFailures, {0})

SpecConc == InitConc /\ [][Next]_vars

\* the completion calls of the invocation that are in flight
InFlight(v) == Cardinality({w \in Workers : wk[v][w].pc = "call"})

\* clamp(requested, 1, MAX_DIRECT_CONCURRENCY); a request without a number asks for 4
ClampOf(req) ==
    LET asked == IF req \in {Absent, NaN} THEN 4 ELSE req
    IN  IF asked < 1 THEN 1
        ELSE IF asked > MAX_DIRECT_CONCURRENCY THEN MAX_DIRECT_CONCURRENCY
        ELSE asked

(***************************************************************************)
(* C20. Within one invocation the completion calls in flight never exceed  *)
(* C = clamp(requested concurrency, 1, MAX_DIRECT_CONCURRENCY), and the    *)
(* pool has exactly C workers, for every requested value.                  *)
(***************************************************************************)
C20_InFlightAtMostC ==
    \A v \in Inv :
       /\ InFlight(v) <= ClampOf(job.requested)
       /\ Scanned(v) => hloc[v].concurrency = ClampOf(job.requested)
       /\ Cardinality({w \in Workers : wk[v][w].pc # "idle"}) <= ClampOf(job.requested)

\* more than the maximum was requested; as many calls as the maximum allows are in flight
C20_Witness ==
    /\ job.requested > MAX_DIRECT_CONCURRENCY
    /\ TotalChunks = MaxConcRows
    /\ InFlight(1) = MAX_DIRECT_CONCURRENCY
    /\ hloc[1].claimed = <<0, 1>>

(***************************************************************************)
(* C21. Every persisted status record has processedRows =                  *)
(* min(completedChunks * K, N), whatever the interleaving of the reads and *)
(* writes of concurrent status updates, and on a resumed job.              *)
(***************************************************************************)
C21_ProcessedRowsFollowChunks ==
    statusRec.exists =>
       statusRec.processedRows =
          IF statusRec.completedChunks * job.chunkSize <= job.n
          THEN statusRec.completedChunks * job.chunkSize
          ELSE job.n

\* a resumed job of 4 rows in chunks of 3: the last chunk is short, and the status
\* write of the chunk was made between the read and the write of another update
C21_Witness ==
    /\ job.n = 4 /\ job.chunkSize = 3
    /\ hloc[1].resumed = 1
    /\ hloc[1].finished = <<1>>
    /\ statusRec.completedChunks = 2
    /\ statusRec.processedRows = 4
    /\ \E p \in 1..Len(statusRec.events) : statusRec.events[p] = "backoff"
    /\ statusRec.events[Len(statusRec.events)] = "done"

RECURSIVE PartsWrites(_, _)
\* the cell writes of the results of the parts, by ascending chunk index and, within
\* a part, in the order its results are listed
PartsWrites(parts, p) ==
    IF p > Len(parts) THEN <<>>
    ELSE (IF Truthy(parts[p]) /\ HasResultsArray(parts[p])
          THEN ItemsWrites(parts[p].items, 1) ELSE <<>>)
         \o PartsWrites(parts, p + 1)

KeepsOriginals(table, n) ==
    /\ Len(table.rows) = n
    /\ \A r \in 1..n : \A h \in 1..Len(OriginalHeaders(n)) :
          /\ table.headers[h] = OriginalHeaders(n)[h]
          /\ table.rows[r][h] = OrigText(r - 1)

(***************************************************************************)
(* C23. In the worker's final table and in every partial download each     *)
(* original field of each row holds its original value, whatever ids and   *)
(* column names the results in the partials carry.                         *)
(***************************************************************************)
C23_OriginalFieldsKept ==
    /\ resultsCsv # NoTable => KeepsOriginals(resultsCsv, job.n)
    /\ (dl.pc = "sent" /\ dl.partial) => KeepsOriginals(dl.table, job.n)

(***************************************************************************)
(* SpecIds: as SpecView, with completions whose results carry their ids    *)
(* and completions whose results carry none.                               *)
(***************************************************************************)
InitIds == InitWith(ViewJobs, {"cols", "noids"}, FALSE, {1}, 0, {0})

SpecIds == InitIds /\ [][NextView]_vars

\* the cell writes of a result that goes to the row of its id, or to row `fallback`
\* when it has no id
ItemWritesOr(item, fallback) ==
    LET r == IF item.id.t = "num" THEN item.id.n ELSE fallback
    IN  IF r < 0 \/ r >= job.n THEN <<>>
        ELSE IF item.form = "cols"
             THEN [q \in 1..Len(item.cols) |->
                     [row |-> r, col |-> item.cols[q].k, val |-> ColValue(item.cols[q].v)]]
        ELSE IF item.form = "result"
             THEN <<[row |-> r, col |-> "result", val |-> item.result]>>
        ELSE <<>>

RECURSIVE ItemsWritesOr(_, _, _)
ItemsWritesOr(items, base, q) ==
    IF q > Len(items) THEN <<>>
    ELSE ItemWritesOr(items[q], base + (q - 1)) \o ItemsWritesOr(items, base, q + 1)

RECURSIVE PartsWritesOr(_, _)
\* the writes of the parts when a result without id goes to chunkBaseId + localOffset
PartsWritesOr(parts, p) ==
    IF p > Len(parts) THEN <<>>
    ELSE (IF Truthy(parts[p]) /\ HasResultsArray(parts[p])
          THEN ItemsWritesOr(parts[p].items, ChunkLo(p - 1), 1) ELSE <<>>)
         \o PartsWritesOr(parts, p + 1)

\* the table holds exactly what the writes W put into the original rows
TableFromWrites(table, W) ==
    /\ table.headers = OriginalHeaders(job.n) \o FirstSeenCols(W)
    /\ Len(table.rows) = job.n
    /\ \A r \in 1..job.n : \A h \in 1..Len(table.headers) :
          table.rows[r][h] = ExpectedCell(W, r - 1, table.headers[h])

(***************************************************************************)
(* C24. Each result of a chunk's output is written to the row its id       *)
(* names, and a result without id to row chunkBaseId + localOffset, its    *)
(* position in the chunk's result list: the worker's final table and a     *)
(* partial download hold exactly these writes.                             *)
(***************************************************************************)
C24_RowByIdElseByPosition ==
    /\ resultsCsv # NoTable => TableFromWrites(resultsCsv, PartsWritesOr(partials, 1))
    /\ (dl.pc = "sent" /\ dl.partial) =>
          TableFromWrites(dl.table, PartsWritesOr(SeenParts, 1))

(***************************************************************************)
(* C25. A completion text that does not parse does not make the worker     *)
(* fail: with no failed call the run reaches the merge and the artifact,   *)
(* and in the final table the "result" column holds the raw text in the    *)
(* first row of that chunk and is empty in the chunk's other rows.         *)
(***************************************************************************)
C25_RawTextInFirstRow ==
    \A v \in Inv :
       /\ failsLeft = MaxFailures => hpc[v] \notin {"ws_fatal", "rel_fatal", "ret_error"}
       /\ Wrote(v) =>
             \A p \in 1..TotalChunks :
                resp[p] = "bad" =>
                   \E h \in 1..Len(resultsCsv.headers) :
                      /\ resultsCsv.headers[h] = "result"
                      /\ \A r \in ChunkLo(p - 1)..(ChunkHi(p - 1) - 1) :
                            resultsCsv.rows[r + 1][h] =
                               IF r = ChunkLo(p - 1) THEN RawText ELSE ""

(***************************************************************************)
(* C26. A download request that is not for a partial view is answered with *)
(* the job's final table only when the status of the job is "ready" at the *)
(* time of the answer.                                                     *)
(***************************************************************************)
C26_FinalOnlyWhenReady ==
    [][(dl.pc = "idle" /\ dl'.pc = "sent" /\ ~dl'.partial) =>
          /\ dl'.table = resultsCsv
          /\ statusRec.status = "ready"]_vars

(***************************************************************************)
(* SpecReads: as SpecView, with a client that asks for the partial view    *)
(* twice while the worker is running.                                      *)
(***************************************************************************)
InitReads == InitWith(ViewJobs, {"cols", "one"}, FALSE, {1}, 0, {0})

NextReads == NextView \/ DlAgain

SpecReads == InitReads /\ [][NextReads]_vars

\* the dynamic columns of a table
DynamicCols(table) ==
    {table.headers[h] : h \in (Len(OriginalHeaders(job.n)) + 1)..Len(table.headers)}

(***************************************************************************)
(* C27. Of two successive partial views of a job, the later one has every  *)
(* dynamic column of the earlier one.                                      *)
(***************************************************************************)
C27_DynamicColumnsOnlyGrow ==
    (dl.pc = "sent" /\ dl.partial /\ dl.before # NoTable) =>
       DynamicCols(dl.before) \subseteq DynamicCols(dl.table)

(***************************************************************************)
(* SpecBatch: a batch job was created and its batch has completed; each    *)
(* output line carries results, a text that is not JSON, or an error.  The *)
(* client asks batch-download.js or batch-download.mjs for the table.      *)
(***************************************************************************)
BatchJobs ==
    {Job(n, k, 1, meta, csv, {}) :
        n \in 1..MaxViewRows, k \in {1, 2}, meta \in BOOLEAN, csv \in BOOLEAN}

InitBatch ==
    /\ job \in BatchJobs
    /\ resp \in [1..TotalChunks -> {"result", "noids", "bad", "err"}]
    /\ failsLeft = 0
    /\ now = 1
    /\ lockTs = 0
    /\ statusRec = NoStatus
    /\ partials = [p \in 1..TotalChunks |-> JNull]
    /\ resultsCsv = NoTable
    /\ hpc = [v \in Inv |-> "off"]
    /\ hloc = [v \in Inv |-> HLocal0]
    /\ wk = [v \in Inv |-> [w \in Workers |-> Worker0]]
    /\ batchLines = <<>>
    /\ dl = Dl0
    /\ sq = Sq0

NextBatch ==
    \/ BatchCreate
    \/ DlOpen
    \/ DlBatchOpen
    \/ DlBatchMerge
    \/ MjsOpen
    \/ MjsMerge

SpecBatch == InitBatch /\ [][NextBatch]_vars

\* the rows of the chunk with base id b
ChunkRows(b) == {r \in 0..(job.n - 1) : b <= r /\ r < b + job.chunkSize}

\* the table has one row per original row with its original field, and a result
\* column that holds the error marker in each row of a chunk whose line reports an
\* error and in no other row
MarksFailedChunks(table) ==
    /\ Len(table.rows) = job.n
    /\ \A r \in 1..job.n : table.rows[r][1] = OrigText(r - 1)
    /\ \A i \in 1..Len(batchLines) :
          resp[i] = "err" =>
             \E h \in 1..Len(table.headers) :
                /\ table.headers[h] = "result"
                /\ \A r \in ChunkRows(batchLines[i].custom_id) :
                      table.rows[r + 1][h] = "ERROR: " \o ErrMsg
    /\ \A r \in 1..job.n : \A h \in 1..Len(table.headers) :
          table.rows[r][h] = "ERROR: " \o ErrMsg =>
             \E i \in 1..Len(batchLines) :
                resp[i] = "err" /\ (r - 1) \in ChunkRows(batchLines[i].custom_id)

(***************************************************************************)
(* C28. In the batch flow an output line that reports the failure of the   *)
(* chunk with base id b puts "ERROR: <message>" into the result of every   *)
(* row with id in [b, min(b + K, N)) and of no other row, and the download *)
(* returns a table with one row per original row.                          *)
(***************************************************************************)
C28_FailedChunkMarked ==
    (dl.pc = "sent" /\ dl.by # "") => MarksFailedChunks(dl.table)

(***************************************************************************)
(* SpecQuery: as SpecMissing, with a client that queries the status.       *)
(***************************************************************************)
NextQuery == Next \/ SqStatus \/ SqCsv

SpecQuery == InitMissing /\ [][NextQuery]_vars

(***************************************************************************)
(* C29. A status query made after the job has failed (meta or CSV missing, *)
(* or a fatal completion failure) is answered with 200, status "failed"    *)
(* and an error that is neither null nor empty.                            *)
(***************************************************************************)
C29_FailedQueryHasError ==
    (sq.pc = "answered" /\ sq.failedBefore) =>
       /\ sq.answer.code = 200
       /\ sq.answer.status = "failed"
       /\ sq.answer.error # NullVal
       /\ sq.answer.error # ""

(***************************************************************************)
(* SpecPool: one invocation with one or two workers on a job of up to      *)
(* three chunks of one row, some of them done by an earlier run; a         *)
(* completion call may fail.                                               *)
(***************************************************************************)
PoolJobs ==
    {Job(n, 1, c, TRUE, TRUE, {429, 400}) : n \in 1..MaxPoolRows, c \in {1, 2}}

InitPool == InitWith(PoolJobs, {"cols"}, FALSE, {1}, MaxPairFailures, {0})

SpecPool == InitPool /\ [][Next]_vars

\* the number of times chunk idx was claimed
ClaimsOf(v, idx) ==
    Cardinality({q \in 1..Len(hloc[v].claimed) : hloc[v].claimed[q] = idx})

(***************************************************************************)
(* C30. In one invocation, whatever the interleaving of its workers: the   *)
(* cursor never decreases; no chunk index is claimed twice, and no two     *)
(* workers hold the same index; a chunk the resume scan marked done is not *)
(* claimed; and when the merge starts (no worker has raised a failure)     *)
(* every other chunk has been claimed exactly once and is completed.       *)
(***************************************************************************)
C30_EachChunkClaimedOnce ==
    /\ [][\A v \in Inv : Scanned(v) => hloc'[v].nextIdx >= hloc[v].nextIdx]_vars
    /\ [](\A v \in Inv :
            Scanned(v) =>
               /\ \A p \in 1..TotalChunks :
                     /\ ClaimsOf(v, p - 1) <= 1
                     /\ hloc[v].scanned[p] => ClaimsOf(v, p - 1) = 0
               /\ \A w1 \in Workers, w2 \in Workers :
                     (w1 # w2 /\ wk[v][w1].idx # -1) => wk[v][w1].idx # wk[v][w2].idx
               /\ (hpc[v] = "merge" \/ Wrote(v)) =>
                     /\ ~Thrown(v)
                     /\ \A p \in 1..TotalChunks :
                           ~hloc[v].scanned[p] =>
                              /\ ClaimsOf(v, p - 1) = 1
                              /\ (p - 1) \in StoredBy(v)
                              /\ hloc[v].done[p])

\* two workers, three chunks: the worker of chunk 1 finished first and claimed
\* chunk 2 while chunk 0 was in flight; the merge has started
C30_Witness ==
    /\ hpc[1] = "merge"
    /\ TotalChunks = 3
    /\ hloc[1].scanned = <<FALSE, FALSE, FALSE>>
    /\ hloc[1].claimed = <<0, 1, 2>>
    /\ hloc[1].finished = <<1, 2, 0>>

\* the delta of the status write at `site` carries a value for `partial`
DeltaHasPartial(site) == site \in {"ws_plan", "ws_ready", "ws_done"}

\* next carries the counters and the numeric fields of prev with the delta applied
AppliesDelta(prev, extra, next) ==
    /\ next.completedChunks =
          IF extra.completedChunks = Absent THEN prev.completedChunks
          ELSE Max(prev.completedChunks, extra.completedChunks)
    /\ next.processedRows =
          IF extra.processedRows = Absent THEN prev.processedRows
          ELSE Max(prev.processedRows, extra.processedRows)
    /\ extra.totalChunks # Absent => next.totalChunks = extra.totalChunks
    /\ extra.concurrency # Absent => next.concurrency = extra.concurrency
    /\ extra.lastErrorStatus # 0 => next.lastErrorStatus = extra.lastErrorStatus

\* the handler of v writes the status record it has just read
HWritesAlone(v) ==
    /\ hpc[v] \in HSites
    /\ hloc[v].phase = "w"
    /\ hloc'[v].phase = "r"
    /\ hloc[v].prev = statusRec

\* worker w of v writes the status record it has just read
WWritesAlone(v, w) ==
    /\ wk[v][w].pc \in WSites
    /\ wk[v][w].phase = "w"
    /\ wk'[v][w].phase = "r"
    /\ wk[v][w].prev = statusRec

LogJobs == {Job(n, 1, c, TRUE, TRUE, {429, 400}) : n \in 1..MaxLogRows, c \in {1, 2}}

\* the event log earlier runs left: entry i carries the message "i"
PriorEvents(len) == [i \in 1..len |-> ToString(i)]

InitLog ==
    /\ job \in LogJobs
    /\ resp \in [1..TotalChunks -> {"cols"}]
    /\ failsLeft = MaxFailures
    /\ now = 1
    /\ lockTs = 0
    /\ \E i \in 0..TotalChunks, len \in {0, EVENTS_KEPT - 1, EVENTS_KEPT, EVENTS_KEPT + 1} :
         /\ len = 0 => i = 0
         /\ partials = [p \in 1..TotalChunks |->
                          IF p <= i THEN PartialBody(Parsed(p - 1)) ELSE JNull]
         /\ statusRec =
               IF len = 0 THEN NoStatus
               ELSE [exists |-> TRUE, status |-> "failed", totalChunks |-> TotalChunks,
                     concurrency |-> Concurrency(job.concurrency),
                     completedChunks |-> i, processedRows |-> ProcessedRows(i),
                     partial |-> i > 0, lastErrorStatus |-> 400,
                     events |-> PriorEvents(len)]
    /\ resultsCsv = NoTable
    /\ hpc = [v \in Inv |-> IF v = 1 THEN "start" ELSE "off"]
    /\ hloc = [v \in Inv |-> HLocal0]
    /\ wk = [v \in Inv |-> [w \in Workers |-> Worker0]]
    /\ batchLines = <<>>
    /\ dl = Dl0
    /\ sq = Sq0

SpecLog == InitLog /\ [][Next]_vars

\* nextLog is prevLog cut to its most recent entries, with msg appended last
LogAppended(prevLog, msg, nextLog) ==
    LET kept == Len(nextLog) - 1
    IN  /\ Len(nextLog) = Min(Len(prevLog) + 1, EVENTS_KEPT + 1)
        /\ nextLog[Len(nextLog)] = msg
        /\ \A i \in 1..kept : nextLog[i] = prevLog[Len(prevLog) - kept + i]

\* the handler of v completes a status write
HWrites(v) == hpc[v] \in HSites /\ hloc[v].phase = "w" /\ hloc'[v].phase = "r"

\* worker w of v completes a status write
WWrites(v, w) == wk[v][w].pc \in WSites /\ wk[v][w].phase = "w" /\ wk'[v][w].phase = "r"

(***************************************************************************)
(* C32. In every persisted status record the event log holds at most 50    *)
(* entries; a status update with a message appends the new entry last and  *)
(* keeps only the most recent entries of the log it read, dropping the     *)
(* oldest first.                                                           *)
(***************************************************************************)
C32_EventLogCapped ==
    /\ [](Len(statusRec.events) <= EVENTS_KEPT + 1)
    /\ [][/\ \A v \in Inv :
               HWrites(v) =>
                  LogAppended(hloc[v].prev.events, HMsg(hpc[v]), statusRec'.events)
          /\ \A v \in Inv, w \in Workers :
               WWrites(v, w) =>
                  LogAppended(wk[v][w].prev.events, WMsg(wk[v][w].pc),
                              statusRec'.events)]_vars

\* a full log received the worker's first message: the oldest entry is gone, the
\* second oldest is now first and the new message is last
C32_Witness ==
    /\ Len(statusRec.events) = EVENTS_KEPT + 1
    /\ statusRec.events[1] = ToString(2)
    /\ statusRec.events[EVENTS_KEPT + 1] = "start"

\* worker w of v has drawn the delay of a backoff and has not yet slept it out
BacksOff(v, w) == wk[v][w].pc \in {"ws_backoff", "sleep"}

\* min(maxDelay, base * 2^attempt)
CappedDelay(attempt) == Min(MAX_DELAY_MS, BASE_DELAY_MS * 2^attempt)

(***************************************************************************)
(* C33. The backoff delay before retry number attempt+1 is                 *)
(* min(maxDelay, base * 2^attempt) multiplied by a jitter factor in        *)
(* [0.5, 1.0], so that with base = 300 ms and maxDelay = 5000 ms no delay  *)
(* exceeds maxDelay and none is below half of min(maxDelay, base *         *)
(* 2^attempt) (to the millisecond).                                        *)
(***************************************************************************)
C33_DelayWithinBounds ==
    \A v \in Inv, w \in Workers :
       BacksOff(v, w) =>
          /\ 2 * (wk[v][w].delay + 1) > CappedDelay(wk[v][w].attempt)
          /\ wk[v][w].delay <= MAX_DELAY_MS

\* worker w of v has nothing left to run
WorkerCeased(v, w) == wk[v][w].pc \in {"idle", "finished", "thrown"}

\* every invocation made has returned and none of its workers has a step left
AllCeased ==
    /\ \E v \in Inv : Returned(v)
    /\ \A v \in Inv :
          /\ hpc[v] = "off" \/ Returned(v)
          /\ \A w \in Workers : WorkerCeased(v, w)

(***************************************************************************)
(* C34. After an invocation has written status "failed" for a fatal chunk  *)
(* failure, no later status write of that same invocation (in particular   *)
(* by workers whose calls were still in flight) changes the status away    *)
(* from "failed"; once all activity of the invocation has ceased, the      *)
(* persisted status is "ready" or "failed", never "running".               *)
(***************************************************************************)
C34_FailedIsFinal ==
    /\ [][\A v \in Inv :
             (/\ Thrown(v)
              /\ statusRec.status = "failed"
              /\ (HWrites(v) \/ \E w \in Workers : WWrites(v, w))) =>
                 statusRec'.status = "failed"]_vars
    /\ [](AllCeased => statusRec.status \in {"ready", "failed"})

\* the event log shows a "ready" followed by the "start" of a later invocation
ReadyThenStarted(events) ==
    \E p, q \in 1..Len(events) : p < q /\ events[p] = "ready" /\ events[q] = "start"

(***************************************************************************)
(* C35. Whenever the persisted job status is "ready", the final artifact   *)
(* of the job exists in the store: the artifact is written before the      *)
(* status is set to ready, within one invocation and across                *)
(* re-invocations.                                                         *)
(***************************************************************************)
C35_ReadyHasArtifact ==
    /\ [](statusRec.status = "ready" => resultsCsv # NoTable)
    /\ [][(statusRec.status # "ready" /\ statusRec'.status = "ready") =>
             resultsCsv # NoTable]_vars

\* a job that was ready was run again and is ready again, the artifact in place
C35_Witness ==
    /\ statusRec.status = "ready"
    /\ ReadyThenStarted(statusRec.events)
    /\ resultsCsv # NoTable

\* from the rows `before` to the rows `after`, only rows of chunk idx changed and
\* no row was created
OnlyOwnRows(before, after, idx) ==
    /\ DOMAIN after = DOMAIN before
    /\ \A r \in DOMAIN before :
          (r < ChunkLo(idx) \/ r >= ChunkHi(idx)) => after[r] = before[r]

(***************************************************************************)
(* C36. During reconciliation (the worker's merge and the partial          *)
(* download's) the partial of chunk i writes result values only into rows  *)
(* whose id lies in chunk i's own range [i*K, min((i+1)*K, N)): a result   *)
(* carrying an id outside that range modifies no row of another chunk, and *)
(* a result whose id is outside [0,N) or is not a number creates no row    *)
(* and modifies none.                                                      *)
(***************************************************************************)
C36_PartialWritesOwnRows ==
    [][/\ \A v \in Inv :
            (hpc[v] = "merge" /\ hloc'[v].mergeIdx = hloc[v].mergeIdx + 1) =>
               OnlyOwnRows(hloc[v].ms.merged, hloc'[v].ms.merged, hloc[v].mergeIdx)
       /\ (dl.pc = "loop" /\ dl'.i = dl.i + 1) =>
               OnlyOwnRows(dl.ms.merged, dl'.ms.merged, dl.i)]_vars

(***************************************************************************)
(* SpecFault: the worker pool of SpecPool on a store whose writes of       *)
(* partials may be rejected.                                               *)
(***************************************************************************)
NextFault ==
    \/ Next
    \/ \E v \in Inv, w \in Workers : PersistPartialFails(v, w)

SpecFault == InitPool /\ [][NextFault]_vars

\* the chunks whose partial is in the store
Persisted == {p \in 1..TotalChunks : partials[p] # JNull}

(***************************************************************************)
(* C37. Whenever the persisted completedChunks equals c, partials of at    *)
(* least c distinct chunks are durably persisted (a chunk is counted as    *)
(* complete only after its partial is stored), including when a write of a *)
(* partial to the store fails.                                             *)
(***************************************************************************)
C37_CountedChunksPersisted ==
    Cardinality(Persisted) >= statusRec.completedChunks

\* the counters of a status record lie within the job's plan
CountersInRange(rec) ==
    /\ 0 <= rec.completedChunks
    /\ rec.completedChunks <= rec.totalChunks
    /\ 0 <= rec.processedRows
    /\ rec.processedRows <= job.n

(***************************************************************************)
(* C38. In every persisted status record, 0 <= completedChunks <=          *)
(* totalChunks and 0 <= processedRows <= rowCount, across the first run,   *)
(* any number of resume invocations and any interleaving of the workers.   *)
(***************************************************************************)
C38_CountersWithinPlan == CountersInRange(statusRec)

(***************************************************************************)
(* SpecLive: a worker pool with the heartbeat callbacks, under the         *)
(* scheduling of the runtime: every await of the                           *)
(* handler and of a worker (a store operation, a completion call, a timer) *)
(* settles and its continuation runs.  Interval callbacks carry no such    *)
(* obligation: a timer may be cleared before it fires.                     *)
(***************************************************************************)
LiveJobs ==
    {Job(n, 1, c, TRUE, TRUE, {429, 400}) : n \in 1..MaxLiveRows, c \in {1, 2}}

InitLive == InitWith(LiveJobs, {"cols"}, FALSE, {1}, MaxPairFailures, {0})

Fairness ==
    /\ \A v \in Inv : WF_vars(HandlerStep(v))
    /\ \A v \in Inv, w \in Workers : WF_vars(WorkerStep(v, w))

NextLive ==
    \/ Next
    \/ \E v \in Inv : Heartbeat(v)

SpecLive == InitLive /\ [][NextLive]_vars /\ Fairness

\* v holds the lease it has just written
Acquired(v) == hpc[v] = "ws_start"

SameJobs ==
    {[Job(n, k, c, TRUE, TRUE, {}) EXCEPT !.blank = b] :
        n \in 1..MaxSameRows, k \in {1, 2}, c \in {1, 2}, b \in 0..MaxSameRows}

InitSame ==
    /\ InitWith(SameJobs, {"cols", "one"}, FALSE, {1}, 0, {0})
    /\ job.blank <= job.n

SpecSame == InitSame /\ [][NextView]_vars

\* a partial download has been answered; when it read the store, the partials of
\* all chunks were persisted and the status record said "ready"
PartialOfReadyJob ==
    /\ dl.pc = "sent"
    /\ dl.partial
    /\ dl.status = "ready"
    /\ \A p \in 1..Len(dl.snap) : dl.snap[p] # JNull

(***************************************************************************)
(* C40. When partials of all chunks are persisted and the job is ready,    *)
(* the table produced by the partial-artifact reconciler equals the final  *)
(* artifact written by the worker: same header, same rows, same values.    *)
(***************************************************************************)
C40_PartialEqualsFinal == PartialOfReadyJob => dl.table = resultsCsv
====
